---- MODULE Spec2Model ----
(***************************************************************************)
(* Request-scoped DataLoaders of the FastAPI/GraphQL backend               *)
(* (app/core/dataloaders.py, app/graphql/context.py).                      *)
(*                                                                         *)
(* A request owns one GraphQLContext, which lazily owns one                *)
(* DataLoaderRegistry, which lazily owns one loader per entity kind.  A    *)
(* loader memoizes the result list of a batch fetch under a string key     *)
(* built from the loader name and the requested key list.  Resolver calls  *)
(* are coroutines: they run to their first await (the database query) in   *)
(* one step and resume in a later step.                                    *)
(***************************************************************************)
EXTENDS Integers, Sequences, FiniteSets, Bags, TLC

\* ---------------------------------------------------------------- bounds
\* concurrent GraphQL requests
NumRequests == 2
\* distinct entity ids (UUIDs) per table
NumIds == 2
\* longest key list handed to load_many
MaxLen == 2
\* load / load_many calls the resolvers of a run make
MaxCalls == 3
\* writes other transactions commit during the run
MaxCommits == 1
\* clear_cache calls per registry
MaxClears == 1

Requests == 1..NumRequests
UUIDs    == 1..NumIds

\* Python's None
None == [none |-> TRUE]

\* The empty dict {}
EmptyDict == [x \in {} |-> x]

\* Keys of DataLoaderRegistry._loaders, one per getter.
LoaderKinds == {"company", "user", "job_application", "job"}

\* The loaders that go through BaseDataLoader._execute_batch.
BatchKinds == {"company", "user", "job"}

\* The batch loader the resolvers of the schema load from (Job.company); the
\* user and job loaders have the same load / load_many and no caller.
ResolvedKinds == {"company"}

\* The loader_key literal each load_many passes to _execute_batch.
LoaderKeyOf(kind) ==
    CASE kind = "company" -> "companies"
      [] kind = "user"    -> "users"
      [] kind = "job"     -> "jobs_with_relations"

\* All key lists of length 0..MaxLen.
KeyLists == UNION {[1..n -> UUIDs] : n \in 0..MaxLen}

VARIABLES
    db,          \* db[kind][id]: version of the row with that id, 0 = no row
    commits,     \* number of writes committed so far
    contexts,    \* contexts[c]._dataloaders: None or a registry
    loaders,     \* heap of loader instances: loaders[l]._cache, l = [db_session, kind, n]
    serving,     \* the requests the server handles in this run
    pending,     \* bag of the load / load_many coroutines suspended on their fetch
    budget,      \* number of load / load_many calls the resolvers still make
    last,        \* the call that returned or raised most recently
    inflight,    \* bag of the batch_fn invocations that have not completed yet
    returned,    \* the values load calls returned since the loader was cleared
    got,         \* got[c][kind]: loader instances the kind's getter returned
    clears       \* clears[c]: clear_dataloaders calls on context c

\* The state of the process-wide cache service (app/services/cache_service.py).
VARIABLES
    redis_client, \* cache_service.redis_client: 0 (None) or the client created n-th
    pinging,      \* the clients whose connect() is awaiting ping()
    store_up,     \* does the store answer (TRUE) or does every command raise
    store,        \* store[key]: [text, expires] of the live keys; expires 0 = never
    now,          \* the store's clock, in seconds
    ticks,        \* steps of the clock so far
    connects,     \* clients created so far
    scans,        \* bag of the invalidate_job_caches calls between KEYS and DEL
    cache_last,   \* the cache operation that finished most recently
    cache_budget, \* cache operations the callers still make
    other_writes, \* entries other clients have written
    fresh,        \* fresh[key]: the value a set call was given for key, nothing since
    purged,       \* keys cached before an invalidation that completed, not set since
    stale,        \* keys cached before a job write that returned, not set since
    expired,      \* keys whose entry expired, not set since
    job_writes    \* job create / update operations that returned

\* The variables of the request-scoped loaders.
loader_vars ==
    <<db, commits, contexts, loaders, serving, pending, budget, last,
      inflight, returned, got, clears>>

\* The variables of the cache service.
cache_vars ==
    <<redis_client, pinging, connects, store_up, store, now, ticks, scans, cache_last,
      cache_budget, other_writes, fresh, purged, stale, expired, job_writes>>

\* The input and the output of a call of the cache key builder.
VARIABLES
    key_prefix,   \* prefix
    key_kwargs,   \* **kwargs, as (name, value) pairs in the order they were passed
    key_built     \* the key returned, <<>> before the call

key_vars == <<key_prefix, key_kwargs, key_built>>

\* The state of the process-wide metrics collector (app/core/monitoring.py).
VARIABLES
    metrics_collector, \* the MetricsCollector instance: its deques and counters
    utcnow,            \* the clock datetime.utcnow() / time.time() reads
    tracked,           \* bag of the track_cache_operation blocks that are open
    track_last,        \* what the tracked block that acted most recently did
    metrics_budget,    \* record calls and tracked blocks the callers still make
    warm,              \* warm[kind]: how many events the collector had seen at the start
    arrived            \* arrived[kind]: the events recorded since, in arrival order

metrics_vars ==
    <<metrics_collector, utcnow, tracked, track_last, metrics_budget, warm, arrived>>

\* The job applications and the calls of the JobApplicationDataLoader.
VARIABLES
    applications,  \* the job_applications table: the (user_id, job_id) rows
    app_pending,   \* bag of the application loads suspended on their query
    app_last,      \* the application load that returned or raised most recently
    app_budget     \* application loads the resolvers still make

application_vars == <<applications, app_pending, app_last, app_budget>>

\* An `async with DataLoaderContext(db_session) as registry:` statement.
VARIABLES
    dlc,          \* the DataLoaderContext object and where the statement is
    dlc_budget    \* loads the body of the statement still makes

context_vars == <<dlc, dlc_budget>>

\* The requests in PerformanceMiddleware.dispatch, the sampling task and the
\* health reports (app/core/monitoring.py).
VARIABLES
    active_requests, \* metrics_collector.active_requests: str(id(request)) -> start
    dispatching,     \* the dispatch calls awaiting call_next(request)
    dispatch_last,   \* how the dispatch call that finished most recently ended
    monitor_budget,  \* requests that still arrive
    system_metrics,  \* metrics_collector.system_metrics: the deques of samples
    sampler,         \* the collect_system_metrics task: where it waits (at), where
                     \* it waited before (from), parity of its iterations (tried)
    health_last      \* what the most recent get_health_status call returned

dispatch_vars == <<active_requests, dispatching, dispatch_last, monitor_budget>>

monitor_vars == <<dispatch_vars, system_metrics, sampler, health_last>>

\* What the actions of each part leave unchanged.
beside_loaders == <<cache_vars, key_vars, metrics_vars, application_vars, context_vars, monitor_vars>>
beside_cache == <<loader_vars, key_vars, metrics_vars, application_vars, context_vars, monitor_vars>>
beside_keys == <<loader_vars, cache_vars, metrics_vars, application_vars, context_vars, monitor_vars>>
beside_metrics == <<loader_vars, cache_vars, key_vars, application_vars, context_vars, monitor_vars>>
beside_applications == <<cache_vars, key_vars, metrics_vars, context_vars, monitor_vars>>
beside_context == <<cache_vars, key_vars, metrics_vars, application_vars, monitor_vars>>

beside_monitor == <<loader_vars, cache_vars, key_vars, application_vars, context_vars>>

vars ==
    <<loader_vars, cache_vars, key_vars, metrics_vars, application_vars, context_vars,
      monitor_vars>>

\* ------------------------------------------------------- pure functions

\* str(k) for a key
Str(k) == ToString(k)

\* ','.join(str(k) for k in keys)
RECURSIVE JoinKeys(_)
JoinKeys(keys) ==
    IF keys = <<>> THEN ""
    ELSE IF Len(keys) = 1 THEN Str(keys[1])
    ELSE Str(keys[1]) \o "," \o JoinKeys(Tail(keys))

\* cache_key = f"{loader_key}:{','.join(str(k) for k in keys)}"
CacheKey(loader_key, keys) == loader_key \o ":" \o JoinKeys(keys)

\* The ORM entity of a row.
Entity(id, ver) == [id |-> id, ver |-> ver]

\* The rows a SELECT ... WHERE id IN (keys) finds in a table.
MatchingRows(table, keys) ==
    {Entity(id, table[id]) : id \in {k \in UUIDs : table[k] > 0 /\ \E i \in DOMAIN keys : keys[i] = k}}

\* Every order in which the store may return a set of rows.
RowOrders(rows) ==
    {s \in [1..Cardinality(rows) -> rows] : \A i, j \in DOMAIN s : i # j => s[i] # s[j]}

\* {entity.id: entity for entity in rows}: a later row replaces an earlier
\* one with the same id.
EntityMap(rows) ==
    [id \in {rows[i].id : i \in DOMAIN rows} |->
        rows[CHOOSE i \in DOMAIN rows :
                /\ rows[i].id = id
                /\ \A j \in DOMAIN rows : rows[j].id = id => j <= i]]

\* dict.get(key): the value, or None for a missing key
DictGet(d, key) == IF key \in DOMAIN d THEN d[key] ELSE None

\* The ids of a list, as the keys of a dict built over it.
JobIdSet(keys) == {keys[i] : i \in DOMAIN keys}

\* A batch function that returns the rows as the store delivered them.
BatchResultsInRowOrder(rows, ids) == rows

\* A batch function that leaves out the ids without a row.
BatchResultsSkippingAbsent(rows, ids) ==
    LET found == SelectSeq(ids, LAMBDA id : id \in DOMAIN EntityMap(rows))
    IN  [i \in DOMAIN found |-> EntityMap(rows)[found[i]]]

\* [entity_map.get(id) for id in ids]
BatchResults(rows, ids) == [i \in DOMAIN ids |-> DictGet(EntityMap(rows), ids[i])]

\* load: entities[0] if entities else None
FirstOrNone(entities) == IF entities # <<>> THEN entities[1] ELSE None

\* ---------------------------------------------------------------- state

\* One context object shared by all requests.
SharedContext(r) == 1

\* get_graphql_context builds a new GraphQLContext for every request.
ContextOf(r) == r

\* The value of `last` before any call has finished.
NoCall ==
    [req |-> 0, loader |-> [db_session |-> 0, kind |-> "", n |-> 0], kind |-> "",
     op |-> "", keys |-> <<>>, known |-> FALSE, sequel |-> FALSE, orphan |-> FALSE,
     retry |-> FALSE, fetched |-> FALSE, outcome |-> "", ret |-> <<>>,
     snap |-> [id \in UUIDs |-> 0]]

\* The value of cache_last before any operation has finished.
NoCacheOp ==
    [n |-> 0, op |-> "", key |-> <<>>, arg |-> None, outcome |-> "", ret |-> None,
     reachable |-> FALSE, found |-> 0, removed |-> 0]

\* No call of the key builder.
InitNoKey ==
    /\ key_prefix = ""
    /\ key_kwargs = <<>>
    /\ key_built = <<>>

\* MetricsCollector.__init__: empty deques and defaultdicts.
NewMetricsCollector ==
    [request_history |-> <<>>, response_times |-> EmptyDict, error_counts |-> EmptyDict,
     request_counts |-> EmptyDict, db_query_times |-> <<>>, cache_hit_rate |-> <<>>,
     cache_operations |-> <<>>]

\* The value of track_last before any tracked block has acted.
NoTrack == [operation_type |-> "", did |-> "", callback |-> "", outcome |-> ""]

\* The collector after construction; nothing is recorded.
InitNoMetrics ==
    /\ metrics_collector = NewMetricsCollector
    /\ utcnow = 0
    /\ tracked = EmptyBag
    /\ track_last = NoTrack
    /\ metrics_budget = 0
    /\ warm = [requests |-> 0, queries |-> 0, ops |-> 0]
    /\ arrived = [requests |-> <<>>, queries |-> <<>>, ops |-> <<>>]

\* The value of app_last before any application load has finished.
NoApplicationLoad ==
    [req |-> 0, op |-> "", user_id |-> 0, job_ids |-> <<>>, fetched |-> FALSE,
     outcome |-> "", ret |-> None]

\* No job application and no application load.
InitNoApplications ==
    /\ applications = {}
    /\ app_pending = EmptyBag
    /\ app_last = NoApplicationLoad
    /\ app_budget = 0

\* No DataLoaderContext.
InitNoContext ==
    /\ dlc = [registry |-> None, at |-> "", awaiting |-> None, filled |-> {}, raised |-> ""]
    /\ dlc_budget = 0

\* The value of dispatch_last before any dispatch call has finished.
NoDispatch == [request_id |-> 0, outcome |-> "", exc |-> "", status_code |-> 0, errors |-> <<>>]

\* No request in the middleware.
InitNoDispatch ==
    /\ active_requests = EmptyDict
    /\ dispatching = {}
    /\ dispatch_last = NoDispatch
    /\ monitor_budget = 0

\* self.system_metrics of MetricsCollector.__init__: three empty deques.
NoSamples == [cpu_percent |-> <<>>, memory_percent |-> <<>>, memory_used_mb |-> <<>>]

\* The value of health_last before any get_health_status call.
NoHealth == [status |-> "", issues |-> <<>>]

\* No sample taken and no health report made.
InitNoSampling ==
    /\ system_metrics = NoSamples
    /\ sampler = [at |-> "created", from |-> "", tried |-> 0]
    /\ health_last = NoHealth

\* No request in the middleware, no sample, no health report.
InitNoMonitor == InitNoDispatch /\ InitNoSampling

\* The cache service after construction, the store empty and up.
InitCacheService ==
    /\ redis_client = 0
    /\ pinging = {}
    /\ connects = 0
    /\ store_up = TRUE
    /\ store = EmptyDict
    /\ now = 0
    /\ ticks = 0
    /\ scans = EmptyBag
    /\ cache_last = NoCacheOp
    /\ fresh = EmptyDict
    /\ purged = {}
    /\ stale = {}
    /\ expired = {}
    /\ other_writes = 0
    /\ job_writes = 0

InitLoaders ==
    /\ db = [kind \in ResolvedKinds |-> [id \in UUIDs |-> IF id = 1 THEN 1 ELSE 0]]
    /\ commits = 0
    /\ contexts = [c \in Requests |-> [_dataloaders |-> None]]
    /\ loaders = EmptyDict
    /\ pending = EmptyBag
    /\ last = NoCall
    /\ inflight = EmptyBag
    /\ returned = {}
    /\ got = [c \in Requests |-> [kind \in LoaderKinds |-> {}]]
    /\ clears = [c \in Requests |-> 0]

\* One request, making MaxCalls calls.
Init ==
    /\ InitLoaders
    /\ serving = {1}
    /\ budget = MaxCalls
    /\ InitCacheService
    /\ cache_budget = 0
    /\ InitNoKey
    /\ InitNoMetrics
    /\ InitNoApplications
    /\ InitNoContext
    /\ InitNoMonitor

\* All requests concurrently, making one call less in total.
InitRequests ==
    /\ InitLoaders
    /\ serving = Requests
    /\ budget = MaxCalls - 1
    /\ InitCacheService
    /\ cache_budget = 0
    /\ InitNoKey
    /\ InitNoMetrics
    /\ InitNoApplications
    /\ InitNoContext
    /\ InitNoMonitor

\* GraphQLContext.dataloaders, reached through get_dataloaders(info): the
\* registry is created on first access.
WithRegistry(ctxs, c) ==
    IF ctxs[c]._dataloaders = None
    THEN [ctxs EXCEPT ![c]._dataloaders = [db_session |-> c, _loaders |-> EmptyDict]]
    ELSE ctxs

\* A getter that constructs a loader on every call.
AlwaysNeedsLoader(registry, kind) == TRUE

\* DataLoaderRegistry.get_*_loader: is a new loader constructed?
NeedsLoader(registry, kind) == kind \notin DOMAIN registry._loaders

\* BaseDataLoader.__init__: the state of a new loader
NewLoader == [_cache |-> EmptyDict]

\* The identity of the loader a registry would construct next for a kind: the
\* session it is bound to, its class, and a serial number.
NextLoader(registry, heap, kind) ==
    [db_session |-> registry.db_session, kind |-> kind,
     n |-> 1 + Cardinality({l \in DOMAIN heap : l.db_session = registry.db_session /\ l.kind = kind})]

\* A registry never holds more loaders than one per kind.
MaxLoaders == NumRequests * Cardinality(LoaderKinds)

\* DataLoaderRegistry.get_company_loader / get_user_loader /
\* get_job_application_loader / get_job_loader: the registry afterwards.
RegistryAfterGet(registry, heap, kind) ==
    IF NeedsLoader(registry, kind)
    THEN [registry EXCEPT !._loaders = (kind :> NextLoader(registry, heap, kind)) @@ @]
    ELSE registry

\* ... and the heap afterwards.
HeapAfterGet(registry, heap, kind) ==
    IF NeedsLoader(registry, kind)
    THEN (NextLoader(registry, heap, kind) :> NewLoader) @@ heap
    ELSE heap

\* The loader instances a registry holds: self._loaders.values()
LoadersOf(registry) == {registry._loaders[kind] : kind \in DOMAIN registry._loaders}

\* A clear_cache that leaves the memos as they are.
HeapNotCleared(registry, heap) == heap

\* DataLoaderRegistry.clear_cache: the heap afterwards.
HeapAfterClear(registry, heap) ==
    [l \in DOMAIN heap |->
        IF l \in LoadersOf(registry) THEN [heap[l] EXCEPT !._cache = EmptyDict] ELSE heap[l]]

\* A clear_cache that also drops the loader instances.
RegistryWithoutLoaders(registry) == [registry EXCEPT !._loaders = EmptyDict]

\* DataLoaderRegistry.clear_cache: the registry afterwards (self._loaders is
\* not touched).
RegistryAfterClear(registry) == registry

\* The ids a loader's memo holds a result for, under whatever key list.
MemoKeys(loader, kind) ==
    {k \in UUIDs : \E ks \in KeyLists :
        /\ \E i \in DOMAIN ks : ks[i] = k
        /\ CacheKey(LoaderKeyOf(kind), ks) \in DOMAIN loader._cache}

\* -------------------------------------------------------------- actions

\* The batch_fn(keys) invocation a call makes and awaits.
Invocation(call) == [req |-> call.req, loader |-> call.loader, keys |-> call.keys]

\* What a finished call leaves behind: the call itself, and for a load that
\* returned, the value it returned.
Finish(call, outcome, entities, snap) ==
    LET ret == IF call.op = "load" THEN FirstOrNone(entities) ELSE entities
    IN  /\ last' = call @@ [outcome |-> outcome, ret |-> ret, snap |-> snap]
        /\ returned' =
              IF call.op = "load" /\ outcome = "ok"
              THEN returned \cup {[loader |-> call.loader, key |-> call.keys[1], value |-> ret]}
              ELSE returned

\* A resolver calls loader.load(key) (op = "load", keys = <<key>>) or
\* loader.load_many(keys): get_dataloaders, the kind's getter, load_many and
\* _execute_batch up to the await of batch_fn.
StartCall(r, kind, op, keys) ==
    LET c        == ContextOf(r)
        ctxs     == WithRegistry(contexts, c)
        registry == ctxs[c]._dataloaders
        reg2     == RegistryAfterGet(registry, loaders, kind)
        heap     == HeapAfterGet(registry, loaders, kind)
        l        == reg2._loaders[kind]
        key      == CacheKey(LoaderKeyOf(kind), keys)
        call     == [req |-> r, loader |-> l, kind |-> kind, op |-> op, keys |-> keys,
                     known  |-> \E i \in DOMAIN keys : keys[i] \in MemoKeys(heap[l], kind),
                     sequel |-> /\ op = "load"
                                /\ \E v \in returned : v.loader = l /\ v.key = keys[1],
                     orphan |-> FALSE,
                     retry  |-> /\ last.outcome = "error"
                                /\ last.loader = l /\ last.keys = keys]
    IN  /\ r \in serving
        /\ budget > 0
        /\ budget' = budget - 1
        /\ op = "load" => Len(keys) = 1
        /\ Cardinality(DOMAIN heap) <= MaxLoaders
        /\ contexts' = [ctxs EXCEPT ![c]._dataloaders = reg2]
        /\ loaders' = heap
        /\ got' = [got EXCEPT ![c][kind] = @ \cup {l}]
        /\ IF keys = <<>>
           THEN /\ Finish(call @@ [fetched |-> FALSE], "ok", <<>>, NoCall.snap)
                /\ UNCHANGED <<pending, inflight>>
           ELSE IF key \in DOMAIN heap[l]._cache
           THEN /\ Finish(call @@ [fetched |-> FALSE], "ok", heap[l]._cache[key], NoCall.snap)
                /\ UNCHANGED <<pending, inflight>>
           ELSE /\ pending' = pending (+) SetToBag({call})
                /\ inflight' = inflight (+) SetToBag({Invocation(call)})
                /\ UNCHANGED <<last, returned>>
        /\ UNCHANGED <<db, commits, serving, clears>>
    /\ UNCHANGED beside_loaders

\* A call that is resumed only when no other call is suspended on its loader.
AwaitsOthers(call) ==
    \E other \in BagToSet(pending) : other # call /\ other.loader = call.loader

\* Does a suspended call wait for anything besides its own batch_fn?
\* _execute_batch awaits batch_fn(keys) and nothing else: it takes no lock and
\* never reads _batch_requests or _batch_promises.
AwaitsMore(call) == FALSE

\* The batch query of a suspended call returns its rows, in any order:
\* _batch_load_* builds the result list, _execute_batch memoizes and returns it.
FetchReturn(call) ==
    LET key == CacheKey(LoaderKeyOf(call.kind), call.keys)
    IN  /\ BagIn(call, pending)
        /\ ~AwaitsMore(call)
        /\ pending' = pending (-) SetToBag({call})
        /\ inflight' = inflight (-) SetToBag({Invocation(call)})
        /\ \E rows \in RowOrders(MatchingRows(db[call.kind], call.keys)) :
              LET results == BatchResults(rows, call.keys)
              IN  /\ loaders' = [loaders EXCEPT ![call.loader]._cache = (key :> results) @@ @]
                  /\ Finish(call @@ [fetched |-> TRUE], "ok", results, db[call.kind])
        /\ UNCHANGED <<db, commits, contexts, serving, budget, got, clears>>
    /\ UNCHANGED beside_loaders

\* A memo that keeps an empty result list for a fetch that raised.
MemoOfFailure(cache, key) == (key :> <<>>) @@ cache

\* The memo after batch_fn raised: the assignment to self._cache[cache_key]
\* is not reached.
MemoAfterRaise(cache, key) == cache

\* The batch query of a suspended call raises: the exception leaves
\* _execute_batch before the memo is written and reaches the caller.
FetchRaise(call) ==
    /\ BagIn(call, pending)
    /\ ~AwaitsMore(call)
    /\ pending' = pending (-) SetToBag({call})
    /\ inflight' = inflight (-) SetToBag({Invocation(call)})
    /\ loaders' = [loaders EXCEPT ![call.loader]._cache =
                       MemoAfterRaise(@, CacheKey(LoaderKeyOf(call.kind), call.keys))]
    /\ Finish(call @@ [fetched |-> TRUE], "error", <<>>, NoCall.snap)
    /\ UNCHANGED <<db, commits, contexts, serving, budget, got, clears>>
    /\ UNCHANGED beside_loaders

\* Job.isSaved: get_dataloaders and get_job_application_loader, no load.
IsSaved(r) ==
    LET c        == ContextOf(r)
        ctxs     == WithRegistry(contexts, c)
        registry == ctxs[c]._dataloaders
        reg2     == RegistryAfterGet(registry, loaders, "job_application")
        heap     == HeapAfterGet(registry, loaders, "job_application")
    IN  /\ r \in serving
        /\ Cardinality(DOMAIN heap) <= MaxLoaders
        /\ contexts' = [ctxs EXCEPT ![c]._dataloaders = reg2]
        /\ loaders' = heap
        /\ got' = [got EXCEPT ![c]["job_application"] = @ \cup {reg2._loaders["job_application"]}]
        /\ UNCHANGED <<db, commits, serving, pending, budget, last, inflight, returned, clears>>
    /\ UNCHANGED beside_loaders

\* The suspended calls after a clear_cache on the loaders ls: a call that was
\* awaiting its fetch on one of them is marked (orphan) as started before the
\* clear; the coroutine itself is not touched by clear_cache.
AfterClear(B, ls) ==
    LET mark(p) == IF p.loader \in ls THEN [p EXCEPT !.orphan = TRUE] ELSE p
        count(q) == IF q \in DOMAIN B THEN B[q] ELSE 0
    IN  [q \in {mark(p) : p \in BagToSet(B)} |->
            IF q.orphan /\ q.loader \in ls
            THEN count(q) + count([q EXCEPT !.orphan = FALSE])
            ELSE count(q)]

\* GraphQLContext.clear_dataloaders: clear_cache on the registry, if any.
ClearDataloaders(r) ==
    LET c == ContextOf(r)
        registry == contexts[c]._dataloaders
    IN  /\ r \in serving
        /\ clears[c] < MaxClears
        /\ clears' = [clears EXCEPT ![c] = @ + 1]
        /\ IF registry = None
           THEN UNCHANGED <<contexts, loaders, returned, pending>>
           ELSE /\ loaders' = HeapAfterClear(registry, loaders)
                /\ pending' = AfterClear(pending, LoadersOf(registry))
                /\ contexts' = [contexts EXCEPT ![c]._dataloaders = RegistryAfterClear(registry)]
                /\ returned' = {v \in returned : v.loader \notin LoadersOf(registry)}
        /\ UNCHANGED <<db, commits, serving, budget, last, inflight, got>>
    /\ UNCHANGED beside_loaders

\* Another transaction commits an insert or update of a row.
DbCommit(kind, id) ==
    /\ commits < MaxCommits
    /\ commits' = commits + 1
    /\ db' = [db EXCEPT ![kind][id] = @ + 1]
    /\ UNCHANGED <<contexts, loaders, serving, pending, budget, last, inflight, returned, got, clears>>
    /\ UNCHANGED beside_loaders

Next ==
    \/ \E r \in Requests, kind \in ResolvedKinds, key \in UUIDs : StartCall(r, kind, "load", <<key>>)
    \/ \E r \in Requests, kind \in ResolvedKinds, keys \in KeyLists : StartCall(r, kind, "load_many", keys)
    \/ \E call \in BagToSet(pending) : FetchReturn(call)
    \/ \E call \in BagToSet(pending) : FetchRaise(call)
    \/ \E r \in Requests : IsSaved(r)
    \/ \E r \in Requests : ClearDataloaders(r)
    \/ \E kind \in ResolvedKinds, id \in UUIDs : DbCommit(kind, id)

Spec == Init /\ [][Next]_vars

SpecRequests == InitRequests /\ [][Next]_vars

\* One request, making one call fewer than under Spec.
InitAnswered ==
    /\ InitLoaders
    /\ serving = {1}
    /\ budget = MaxCalls - 1
    /\ InitCacheService
    /\ cache_budget = 0
    /\ InitNoKey
    /\ InitNoMetrics
    /\ InitNoApplications
    /\ InitNoContext
    /\ InitNoMonitor

\* The fetch of some suspended call completes.
FetchCompletes == \E call \in BagToSet(pending) : FetchReturn(call) \/ FetchRaise(call)

\* The runs in which the database answers: while calls are suspended on their
\* fetch, a fetch eventually returns or raises.
SpecAnswered == InitAnswered /\ [][Next]_vars /\ WF_vars(FetchCompletes)

(***************************************************************************)
(* Job.isApplied and the JobApplicationDataLoader.                         *)
(*                                                                         *)
(* The loader memoizes, per user, the dict of applications its first       *)
(* query returned, under the key "user_applications:<user_id>".            *)
(***************************************************************************)

\* application loads the resolvers of a run make
MaxApplicationLoads == 3

\* info.context.user of a request: each request is made by its own user.
UserOf(r) == r

\* A JobApplication row.
Application(user_id, job_id) == [user_id |-> user_id, job_id |-> job_id]

\* cache_key = f"user_applications:{user_id}"
ApplicationsKey(user_id) == "user_applications:" \o Str(user_id)

\* _batch_load_user_applications: {app.job_id: app for app in applications}
\* over the rows of the user whose job_id is in job_ids.
BatchLoadUserApplications(table, user_id, job_ids) ==
    [job_id \in {j \in JobIdSet(job_ids) : Application(user_id, j) \in table} |->
        Application(user_id, job_id)]

\* {job_id: cached_applications.get(job_id) for job_id in job_ids}
ApplicationsFor(cached_applications, job_ids) ==
    [job_id \in JobIdSet(job_ids) |-> DictGet(cached_applications, job_id)]

\* What load_user_application_for_job / load_user_applications_for_jobs
\* return from the dict of the requested jobs.
ApplicationResult(op, by_job, job_ids) ==
    IF op = "load_user_application_for_job" THEN DictGet(by_job, job_ids[1]) ELSE by_job

\* One request; its user has applied to any of the jobs.
InitApplications ==
    /\ InitLoaders
    /\ serving = {1}
    /\ budget = 0
    /\ InitCacheService
    /\ cache_budget = 0
    /\ InitNoKey
    /\ InitNoMetrics
    /\ applications \in SUBSET {Application(UserOf(1), j) : j \in UUIDs}
    /\ app_pending = EmptyBag
    /\ app_last = NoApplicationLoad
    /\ app_budget = MaxApplicationLoads
    /\ InitNoContext
    /\ InitNoMonitor

\* Job.isApplied calls load_user_application_for_job (job_ids = <<job_id>>), or
\* a resolver calls load_user_applications_for_jobs: get_dataloaders, the
\* getter, and the load up to its return or to the await of the query.
StartApplicationLoad(r, op, job_ids) ==
    LET c        == ContextOf(r)
        ctxs     == WithRegistry(contexts, c)
        registry == ctxs[c]._dataloaders
        reg2     == RegistryAfterGet(registry, loaders, "job_application")
        heap     == HeapAfterGet(registry, loaders, "job_application")
        l        == reg2._loaders["job_application"]
        key      == ApplicationsKey(UserOf(r))
        call     == [req |-> r, loader |-> l, op |-> op, user_id |-> UserOf(r),
                     job_ids |-> job_ids]
    IN  /\ r \in serving
        /\ app_budget > 0
        /\ app_budget' = app_budget - 1
        /\ op = "load_user_application_for_job" => Len(job_ids) = 1
        /\ contexts' = [ctxs EXCEPT ![c]._dataloaders = reg2]
        /\ loaders' = heap
        /\ got' = [got EXCEPT ![c]["job_application"] = @ \cup {l}]
        /\ IF job_ids = <<>>
           THEN /\ app_last' = [req |-> r, op |-> op, user_id |-> UserOf(r), job_ids |-> job_ids,
                                 fetched |-> FALSE, outcome |-> "ok",
                                 ret |-> EmptyDict]
                /\ UNCHANGED app_pending
           ELSE IF key \in DOMAIN heap[l]._cache
           THEN /\ app_last' = [req |-> r, op |-> op, user_id |-> UserOf(r), job_ids |-> job_ids,
                                 fetched |-> FALSE, outcome |-> "ok",
                                 ret |-> ApplicationResult(
                                            op, ApplicationsFor(heap[l]._cache[key], job_ids),
                                            job_ids)]
                /\ UNCHANGED app_pending
           ELSE /\ app_pending' = app_pending (+) SetToBag({call})
                /\ UNCHANGED app_last
        /\ UNCHANGED <<db, commits, serving, pending, budget, last, inflight, returned, clears>>
        /\ UNCHANGED applications
        /\ UNCHANGED beside_applications

\* The query of a suspended load returns: the dict of the rows is memoized
\* under the user's key, replacing what is there, and the load returns the
\* entries of the requested jobs.
ApplicationFetchReturn(call) ==
    LET key    == ApplicationsKey(call.user_id)
        found  == BatchLoadUserApplications(applications, call.user_id, call.job_ids)
        cache  == (key :> found) @@ loaders[call.loader]._cache
    IN  /\ BagIn(call, app_pending)
        /\ app_pending' = app_pending (-) SetToBag({call})
        /\ loaders' = [loaders EXCEPT ![call.loader]._cache = cache]
        /\ app_last' = [req |-> call.req, op |-> call.op, user_id |-> call.user_id,
                         job_ids |-> call.job_ids, fetched |-> TRUE, outcome |-> "ok",
                         ret |-> ApplicationResult(
                                    call.op, ApplicationsFor(cache[key], call.job_ids),
                                    call.job_ids)]
        /\ UNCHANGED <<db, commits, contexts, serving, pending, budget, last, inflight,
                       returned, got, clears>>
        /\ UNCHANGED <<applications, app_budget>>
        /\ UNCHANGED beside_applications

\* The query of a suspended load raises: the exception reaches the caller, the
\* memo is not written.
ApplicationFetchRaise(call) ==
    /\ BagIn(call, app_pending)
    /\ app_pending' = app_pending (-) SetToBag({call})
    /\ app_last' = [req |-> call.req, op |-> call.op, user_id |-> call.user_id,
                     job_ids |-> call.job_ids, fetched |-> TRUE, outcome |-> "error",
                     ret |-> None]
    /\ UNCHANGED loader_vars
    /\ UNCHANGED <<applications, app_budget>>
    /\ UNCHANGED beside_applications

NextApplications ==
    \/ \E r \in Requests, job_id \in UUIDs :
          StartApplicationLoad(r, "load_user_application_for_job", <<job_id>>)
    \/ \E r \in Requests, job_ids \in KeyLists :
          StartApplicationLoad(r, "load_user_applications_for_jobs", job_ids)
    \/ \E call \in BagToSet(app_pending) : ApplicationFetchReturn(call)
    \/ \E call \in BagToSet(app_pending) : ApplicationFetchRaise(call)

SpecApplications == InitApplications /\ [][NextApplications]_vars

(***************************************************************************)
(* DataLoaderContext: `async with DataLoaderContext(db_session) as         *)
(* registry:`.  The body gets loaders from the registry and awaits their   *)
(* loads one after the other; it ends by returning or by an exception.     *)
(***************************************************************************)

\* load_many calls the body of the statement makes
MaxBodyLoads == 2

\* What __aexit__ returns: it has no return statement.
AexitReturn == None

\* Does the async with statement swallow the exception of its body?  Only if
\* __aexit__ returns a true value, which None is not.
Suppressed(ret) == ret # None

\* The exception that leaves the statement when its body raised exc.
AfterAexit(exc) == IF Suppressed(AexitReturn) THEN "" ELSE exc

\* DataLoaderContext(db_session) is constructed and entered: __aenter__
\* returns the new, empty registry.  Every batch table holds the row of id 1.
InitContext ==
    /\ db = [kind \in BatchKinds |-> [id \in UUIDs |-> IF id = 1 THEN 1 ELSE 0]]
    /\ commits = 0
    /\ contexts = [c \in Requests |-> [_dataloaders |-> None]]
    /\ loaders = EmptyDict
    /\ pending = EmptyBag
    /\ last = NoCall
    /\ inflight = EmptyBag
    /\ returned = {}
    /\ got = [c \in Requests |-> [kind \in LoaderKinds |-> {}]]
    /\ clears = [c \in Requests |-> 0]
    /\ serving = {}
    /\ budget = 0
    /\ InitCacheService
    /\ cache_budget = 0
    /\ InitNoKey
    /\ InitNoMetrics
    /\ InitNoApplications
    /\ dlc = [registry |-> [db_session |-> 1, _loaders |-> EmptyDict], at |-> "body",
              awaiting |-> None, filled |-> {}, raised |-> ""]
    /\ dlc_budget = MaxBodyLoads
    /\ InitNoMonitor

\* The body calls registry.get_<kind>_loader().load_many(keys): the getter,
\* then _execute_batch up to its return (memo hit) or to the await of batch_fn.
BodyLoad(kind, keys) ==
    LET reg2 == RegistryAfterGet(dlc.registry, loaders, kind)
        heap == HeapAfterGet(dlc.registry, loaders, kind)
        l    == reg2._loaders[kind]
        key  == CacheKey(LoaderKeyOf(kind), keys)
    IN  /\ dlc.at = "body"
        /\ dlc.awaiting = None
        /\ dlc_budget > 0
        /\ dlc_budget' = dlc_budget - 1
        /\ loaders' = heap
        /\ dlc' = [dlc EXCEPT !.registry = reg2,
                               !.awaiting = IF keys = <<>> \/ key \in DOMAIN heap[l]._cache
                                            THEN None
                                            ELSE [loader |-> l, kind |-> kind, keys |-> keys]]
        /\ UNCHANGED <<db, commits, contexts, serving, pending, budget, last, inflight,
                       returned, got, clears>>
        /\ UNCHANGED beside_context

\* The batch query the body awaits returns: the result list is memoized.
BodyFetchReturn ==
    /\ dlc.at = "body"
    /\ dlc.awaiting # None
    /\ \E rows \in RowOrders(MatchingRows(db[dlc.awaiting.kind], dlc.awaiting.keys)) :
          loaders' = [loaders EXCEPT ![dlc.awaiting.loader]._cache =
                         (CacheKey(LoaderKeyOf(dlc.awaiting.kind), dlc.awaiting.keys)
                             :> BatchResults(rows, dlc.awaiting.keys)) @@ @]
    /\ dlc' = [dlc EXCEPT !.awaiting = None, !.filled = @ \cup {dlc.awaiting.loader}]
    /\ UNCHANGED <<db, commits, contexts, serving, pending, budget, last, inflight,
                   returned, got, clears>>
    /\ UNCHANGED dlc_budget
    /\ UNCHANGED beside_context

\* The statement is left with the exception exc ("" for none): __aexit__ calls
\* registry.clear_cache() and returns.
Aexit(exc) ==
    /\ loaders' = HeapAfterClear(dlc.registry, loaders)
    /\ dlc' = [dlc EXCEPT !.at = "done", !.awaiting = None, !.raised = AfterAexit(exc)]
    /\ UNCHANGED <<db, commits, contexts, serving, pending, budget, last, inflight,
                   returned, got, clears>>
    /\ UNCHANGED dlc_budget
    /\ UNCHANGED beside_context

\* The body ends normally.
BodyReturn ==
    /\ dlc.at = "body"
    /\ dlc.awaiting = None
    /\ Aexit("")

\* The body raises: the query it awaits fails, or its own code does.
BodyRaise ==
    /\ dlc.at = "body"
    /\ Aexit("error")

NextContext ==
    \/ \E kind \in BatchKinds, keys \in KeyLists : BodyLoad(kind, keys)
    \/ BodyFetchReturn
    \/ BodyReturn
    \/ BodyRaise

SpecContext == InitContext /\ [][NextContext]_vars

(***************************************************************************)
(* Process-wide cache service (app/services/cache_service.py).             *)
(*                                                                         *)
(* One CacheService instance per process talks to a Redis server through   *)
(* redis_client.  Every operation is a coroutine with one store command    *)
(* per await; invalidate_job_caches has two (KEYS, then DEL).  The server  *)
(* is shared: other clients write to it, its keys expire, it may be down.  *)
(***************************************************************************)

\* ---------------------------------------------------------------- bounds
\* get / set / invalidate calls made on the cache service
MaxCacheOps == 2
\* steps of the clock
MaxTicks == 1
\* connection attempts
MaxConnects == 1
\* entries other clients of the store write
MaxOtherWrites == 2
\* job create / update operations
MaxJobWrites == 1

\* ---------------------------------------------------------- Python values
\* A value is a record with one field, named after its type (as None is).
PyInt(n) == [int |-> n]
PyStr(x) == [str |-> x]
PyBool(b) == [bool |-> b]
PyList(xs) == [list |-> xs]
PyDict(d) == [dict |-> d]
PyDatetime(x) == [datetime |-> x]

\* type(value).__name__
TypeOf(value) == CHOOSE name \in DOMAIN value : TRUE

\* CacheService.__init__: self.ttl_config
ttl_config ==
    [default |-> 300, search |-> 180, company |-> 3600, user |-> 1800,
     job_detail |-> 600, graphql_query |-> 300, application |-> 900, session |-> 86400]

\* The instance attributes CacheService.__init__ sets; the class defines no
\* other data attribute and no __getattr__.
Attributes == {"redis_client", "ttl_config", "key_patterns"}

\* self.<attr>: does the read succeed (or raise AttributeError)?
HasAttr(attr) == attr \in Attributes

\* A handler that catches nothing.
HandlesNothing == FALSE

\* `except Exception as e:` of every cache operation: the exceptions of the
\* try body (store errors, AttributeError, TypeError) are all caught.
HandlesException == TRUE

\* ------------------------------------------------------ key construction

\* The keyword parameters of the search cache, in sorted() order.
NameOrder ==
    <<"experience_level", "job_type", "limit", "location", "offset",
      "remote_type", "search", "user_created">>

\* The position of a parameter name in the order of str.
Rank(name) == CHOOSE i \in DOMAIN NameOrder : NameOrder[i] = name

\* sorted(kwargs.items()): the (name, value) pairs by name.
SortedItems(items) ==
    [k \in DOMAIN items |->
        items[CHOOSE i \in DOMAIN items :
                 Cardinality({j \in DOMAIN items : Rank(items[j][1]) < Rank(items[i][1])}) = k - 1]]

\* json.dumps of a parameter value
JsonScalar(v) ==
    CASE TypeOf(v) = "none" -> "null"
      [] TypeOf(v) = "int"  -> ToString(v.int)
      [] TypeOf(v) = "str"  -> "\"" \o v.str \o "\""
      [] TypeOf(v) = "bool" -> IF v.bool THEN "true" ELSE "false"

\* json.dumps(sorted_params, sort_keys=True): a list of [name, value] lists
RECURSIVE JsonItems(_)
JsonItems(items) ==
    IF items = <<>> THEN ""
    ELSE "[\"" \o items[1][1] \o "\", " \o JsonScalar(items[1][2]) \o "]"
         \o (IF Len(items) = 1 THEN "" ELSE ", " \o JsonItems(Tail(items)))

\* hashlib.md5(params_str.encode()).hexdigest()[:8]: the digest is a function
\* of the text alone; it is kept as a term over the text.
Md5Hex8(text) == "md5[:8](" \o text \o ")"

\* A Redis key is kept as the tuple of its ':'-separated segments.

\* A key builder that serializes the parameters in the order given.
_generate_cache_key_unsorted(prefix, kwargs) ==
    <<"jobquest", prefix, Md5Hex8("[" \o JsonItems(kwargs) \o "]")>>

\* CacheService._generate_cache_key: f"jobquest:{prefix}:{params_hash}"
_generate_cache_key(prefix, kwargs) ==
    <<"jobquest", prefix, Md5Hex8("[" \o JsonItems(SortedItems(kwargs)) \o "]")>>

\* The parameter sets job searches are cached for: the defaults of
\* get_job_search_results, and a search for "python".
JobSearches ==
    {[limit |-> PyInt(20), offset |-> PyInt(0), search |-> x, location |-> None,
      job_type |-> None, experience_level |-> None, remote_type |-> None,
      user_created |-> None] : x \in {None, PyStr("python")}}

\* The keyword arguments get/set_job_search_results pass to the key builder.
SearchKwargs(p) ==
    <<<<"limit", p.limit>>, <<"offset", p.offset>>, <<"search", p.search>>,
      <<"location", p.location>>, <<"job_type", p.job_type>>,
      <<"experience_level", p.experience_level>>, <<"remote_type", p.remote_type>>,
      <<"user_created", p.user_created>>>>

\* cache_key of get/set_job_search_results
JobKey == [p \in JobSearches |-> _generate_cache_key("jobs", SearchKwargs(p))]

\* json.dumps(value) with no default=: does it return (or raise TypeError)?
Serializable(value) == TypeOf(value) \in {"none", "int", "str", "bool"}

\* _generate_cache_key(prefix, **kwargs): does it return a key, or does its
\* json.dumps raise?
KeyBuilds(kwargs) == \A i \in DOMAIN kwargs : Serializable(kwargs[i][2])

\* A parameter set with a value json.dumps cannot serialize: a datetime passed
\* as the search text.
UnserializableSearches ==
    {[limit |-> PyInt(20), offset |-> PyInt(0), search |-> PyDatetime("2024-01-01 00:00:00"),
      location |-> None, job_type |-> None, experience_level |-> None,
      remote_type |-> None, user_created |-> None]}

\* The parameter sets the callers pass.
SearchParams == JobSearches \cup UnserializableSearches

\* No key: _generate_cache_key raised.
NoKey == <<>>

\* The key get/set_job_search_results build for a parameter set, if any.
SearchKey(p) == IF KeyBuilds(SearchKwargs(p)) THEN JobKey[p] ELSE NoKey

\* Company ids
CompanyIds == {"c1"}

\* Company keys kept in the namespace of the job searches.
CompanyKeyAmongJobs == [id \in CompanyIds |-> <<"jobquest", "jobs", id>>]

\* cache_key = f"jobquest:company:{company_id}"
CompanyKey == [id \in CompanyIds |-> <<"jobquest", "company", id>>]

\* The keys of the store the model follows.
StoreKeys == {JobKey[p] : p \in JobSearches} \cup {CompanyKey[id] : id \in CompanyIds}

\* A glob that matches the keys of every namespace.
GlobMatchAny(pattern, key) == TRUE

\* Redis KEYS glob with a trailing '*': the text before it is a prefix of the
\* key (segments hold no ':').
GlobMatch(pattern, key) ==
    /\ Len(key) >= Len(pattern)
    /\ pattern[Len(pattern)] = "*"
    /\ \A i \in 1..(Len(pattern) - 1) : key[i] = pattern[i]

\* A pattern for the keys of every namespace: "jobquest:*"
EveryPattern == <<"jobquest", "*">>

\* "jobquest:jobs:*"
JobsPattern == <<"jobquest", "jobs", "*">>

\* ------------------------------------------------------------ payloads

\* json.loads(json.dumps(value, default=str)): values json cannot encode are
\* replaced by their str().
RECURSIVE JsonValue(_)
JsonValue(value) ==
    CASE TypeOf(value) = "list" -> PyList([i \in DOMAIN value.list |-> JsonValue(value.list[i])])
      [] TypeOf(value) = "dict" -> PyDict([f \in DOMAIN value.dict |-> JsonValue(value.dict[f])])
      [] TypeOf(value) = "datetime" -> PyStr(value.datetime)
      [] OTHER -> value

\* json.dumps(value, default=str): the JSON text
JsonDumps(value) == [json |-> JsonValue(value)]

\* json.loads(text)
JsonLoads(text) == text.json

\* The result lists callers cache: an empty one, and one job whose posting
\* date is a datetime.
SearchResults ==
    {PyList(<<>>),
     PyList(<<PyDict([title |-> PyStr("dev"), posted |-> PyDatetime("2024-01-01 00:00:00")])>>)}

\* The company data callers cache.
CompanyDatas == {PyDict([name |-> PyStr("acme")])}

\* set_job_search_results: cache_data, the metadata wrapped around the results
CacheData(results, p, clock) ==
    PyDict([results |-> results, cached_at |-> PyStr(ToString(clock)), params |-> PyDict(p)])

\* The text another client of the store keeps under a key.
OtherText(key) == JsonDumps(PyDict([owner |-> PyStr("other"), ns |-> PyStr(key[2])]))

\* ------------------------------------------------- cache service actions

\* The requests served while only the cache service is exercised: none.
InitCache ==
    /\ InitLoaders
    /\ serving = {}
    /\ budget = 0
    /\ InitCacheService
    /\ cache_budget = MaxCacheOps
    /\ InitNoKey
    /\ InitNoMetrics
    /\ InitNoApplications
    /\ InitNoContext
    /\ InitNoMonitor

\* How an operation ends: it returns a value ...
Returned(value) == [outcome |-> "returned", ret |-> value]

\* ... or an exception leaves it.
Raised == [outcome |-> "raised", ret |-> None]

\* The try body raised: the except clause returns the fallback value.
Handled(fallback) == IF HandlesException THEN Returned(fallback) ELSE Raised

\* The sum of the counts a bag has for the elements of S.
RECURSIVE SumOver(_, _)
SumOver(B, S) ==
    IF S = {} THEN 0
    ELSE LET x == CHOOSE x \in S : TRUE IN B[x] + SumOver(B, S \ {x})

\* The bag of the images of a bag's elements.
BagMap(B, F(_)) ==
    [q \in {F(p) : p \in BagToSet(B)} |-> SumOver(B, {p \in BagToSet(B) : F(p) = q})]

\* Redis SETEX key ttl text
StoreAfterSetex(st, key, ttl, text, clock) ==
    (key :> [text |-> text, expires |-> clock + ttl]) @@ st

\* A DEL that removes one of the keys only.
StoreAfterDeleteOne(st, keys) ==
    IF keys \cap DOMAIN st = {} THEN st
    ELSE [k \in DOMAIN st \ {CHOOSE k \in keys \cap DOMAIN st : TRUE} |-> st[k]]

\* Redis DEL key [key ...]
StoreAfterDelete(st, keys) == [k \in DOMAIN st \ keys |-> st[k]]

\* A store that keeps its entries past their expiry.
StoreKeepsExpired(st, clock) == st

\* Redis expiry: at a time, the entries whose time-to-live has elapsed are gone.
StoreAt(st, clock) == [k \in {x \in DOMAIN st : st[x].expires > clock} |-> st[k]]

\* Is the key one of the job-search namespace?
IsJobKey(key) == key # NoKey /\ key[2] = "jobs"

\* An entry was written under key: what the bookkeeping of the model records.
Written(key) ==
    /\ purged' = purged \ {key}
    /\ stale' = stale \ {key}
    /\ expired' = expired \ {key}

\* The invalidations in progress after a write under key reached the store.
ScansAfterWrite(key) ==
    BagMap(scans, LAMBDA sc : IF IsJobKey(key) THEN [sc EXCEPT !.raced = TRUE] ELSE sc)

\* What a finished operation leaves in cache_last.
CacheFinish(op, key, arg, end, reachable, found, removed) ==
    cache_last' = [n |-> cache_last.n + 1, op |-> op, key |-> key, arg |-> arg,
                   outcome |-> end.outcome, ret |-> end.ret,
                   reachable |-> reachable, found |-> found, removed |-> removed]

\* get_job_search_results / get_company_data: no client -> None; the key
\* builder raises -> None; GET raises -> None; a text -> json.loads(text);
\* nothing -> None.
CacheGet(op, key) ==
    LET end == IF redis_client = 0 THEN Returned(None)
               ELSE IF key = NoKey THEN Handled(None)
               ELSE IF ~store_up THEN Handled(None)
               ELSE IF key \in DOMAIN store THEN Returned(JsonLoads(store[key].text))
               ELSE Returned(None)
    IN  /\ cache_budget > 0
        /\ cache_budget' = cache_budget - 1
        /\ CacheFinish(op, key, None, end, redis_client # 0 /\ store_up, 0, 0)
        /\ UNCHANGED <<redis_client, pinging, connects, store_up, store, now, ticks, scans,
                       other_writes, fresh, purged, stale, expired, job_writes>>
        /\ UNCHANGED beside_cache

GetJobSearchResults(p) == CacheGet("get_job_search_results", SearchKey(p))

GetCompanyData(company_id) == CacheGet("get_company_data", CompanyKey[company_id])

\* set_job_search_results / set_company_data: no client -> False; the try body
\* builds the key and the payload, reads self.<ttl_attr> and awaits SETEX; any
\* exception -> False; otherwise True.
CacheSet(op, key, ttl_attr, ttl, value, payload) ==
    LET reachable == redis_client # 0 /\ store_up
        stores    == reachable /\ key # NoKey /\ HasAttr(ttl_attr)
        end       == IF redis_client = 0 THEN Returned(PyBool(FALSE))
                     ELSE IF key = NoKey THEN Handled(PyBool(FALSE))
                     ELSE IF ~HasAttr(ttl_attr) THEN Handled(PyBool(FALSE))
                     ELSE IF ~store_up THEN Handled(PyBool(FALSE))
                     ELSE Returned(PyBool(TRUE))
    IN  /\ cache_budget > 0
        /\ cache_budget' = cache_budget - 1
        /\ CacheFinish(op, key, value, end, reachable, 0, 0)
        /\ store' = IF stores THEN StoreAfterSetex(store, key, ttl, JsonDumps(payload), now)
                    ELSE store
        /\ fresh' = IF reachable /\ key # NoKey THEN (key :> value) @@ fresh ELSE fresh
        /\ IF stores
           THEN Written(key)
           ELSE UNCHANGED <<purged, stale, expired>>
        /\ scans' = BagMap(IF stores THEN ScansAfterWrite(key) ELSE scans,
                           LAMBDA sc : IF reachable /\ IsJobKey(key)
                                       THEN [sc EXCEPT !.sets = @ \cup {key}] ELSE sc)
        /\ UNCHANGED <<redis_client, pinging, connects, store_up, now, ticks,
                       other_writes, job_writes>>
        /\ UNCHANGED beside_cache

SetJobSearchResults(results, p) ==
    CacheSet("set_job_search_results", SearchKey(p), "search_ttl", ttl_config.search,
             results, CacheData(results, p, now))

SetCompanyData(company_id, company_data) ==
    CacheSet("set_company_data", CompanyKey[company_id], "company_ttl", ttl_config.company,
             company_data, company_data)

\* invalidate_job_caches up to its second await: no client -> return; KEYS
\* raises -> return; no key found -> return; else DEL is awaited.
InvalidateScan ==
    LET job_keys == {k \in DOMAIN store : GlobMatch(JobsPattern, k)}
        before   == {k \in DOMAIN store : IsJobKey(k)}
    IN  /\ cache_budget > 0
        /\ cache_budget' = cache_budget - 1
        /\ IF redis_client = 0
           THEN /\ CacheFinish("invalidate_job_caches", <<>>, None, Returned(None), FALSE, 0, 0)
                /\ UNCHANGED <<scans, purged>>
           ELSE IF ~store_up
           THEN /\ CacheFinish("invalidate_job_caches", <<>>, None, Handled(None), FALSE, 0, 0)
                /\ UNCHANGED <<scans, purged>>
           ELSE IF job_keys = {}
           THEN /\ CacheFinish("invalidate_job_caches", <<>>, None, Returned(None), TRUE, 0, 0)
                /\ purged' = purged \cup before
                /\ UNCHANGED scans
           ELSE /\ scans' = scans (+) SetToBag({[job_keys |-> job_keys, before |-> before,
                                                 raced |-> FALSE, sets |-> {}]})
                /\ UNCHANGED <<cache_last, purged>>
        /\ fresh' = IF redis_client # 0 /\ store_up THEN EmptyDict ELSE fresh
        /\ UNCHANGED <<redis_client, pinging, connects, store_up, store, now, ticks,
                       other_writes, stale, expired, job_writes>>
        /\ UNCHANGED beside_cache

\* invalidate_job_caches from its second await: DEL of the keys found, then
\* the return; an exception of DEL is caught.
InvalidateDelete(sc) ==
    LET reachable == redis_client # 0 /\ store_up
        removed   == Cardinality(sc.job_keys \cap DOMAIN store)
    IN  /\ BagIn(sc, scans)
        /\ scans' = scans (-) SetToBag({sc})
        /\ IF reachable
           THEN /\ store' = StoreAfterDelete(store, sc.job_keys)
                /\ CacheFinish("invalidate_job_caches", <<>>, None, Returned(None), TRUE,
                               Cardinality(sc.job_keys), removed)
                /\ purged' = IF sc.raced THEN purged ELSE purged \cup sc.before
                /\ fresh' = EmptyDict
           ELSE /\ CacheFinish("invalidate_job_caches", <<>>, None, Handled(None), FALSE,
                               Cardinality(sc.job_keys), 0)
                /\ UNCHANGED <<store, purged, fresh>>
        /\ UNCHANGED <<redis_client, pinging, connects, store_up, now, ticks, cache_budget,
                       other_writes, stale, expired, job_writes>>
        /\ UNCHANGED beside_cache

\* get_cache_service with no client: connect() creates the client and awaits
\* its ping.
ConnectStart ==
    /\ redis_client = 0
    /\ connects < MaxConnects
    /\ connects' = connects + 1
    /\ redis_client' = connects + 1
    /\ pinging' = pinging \cup {connects + 1}
    /\ UNCHANGED <<store_up, store, now, ticks, scans, cache_last, cache_budget,
                   other_writes, fresh, purged, stale, expired, job_writes>>
    /\ UNCHANGED beside_cache

\* The ping is answered.
PingReturn(c) ==
    /\ c \in pinging
    /\ store_up
    /\ pinging' = pinging \ {c}
    /\ UNCHANGED <<redis_client, connects, store_up, store, now, ticks, scans, cache_last,
                   cache_budget, other_writes, fresh, purged, stale, expired, job_writes>>
    /\ UNCHANGED beside_cache

\* The ping raises: connect() catches it and sets redis_client to None.
PingRaise(c) ==
    /\ c \in pinging
    /\ ~store_up
    /\ pinging' = pinging \ {c}
    /\ redis_client' = 0
    /\ UNCHANGED <<connects, store_up, store, now, ticks, scans, cache_last,
                   cache_budget, other_writes, fresh, purged, stale, expired, job_writes>>
    /\ UNCHANGED beside_cache

\* The store stops answering: every command raises from now on.
StoreDown ==
    /\ store_up
    /\ store_up' = FALSE
    /\ UNCHANGED <<redis_client, pinging, connects, store, now, ticks, scans, cache_last,
                   cache_budget, other_writes, fresh, purged, stale, expired, job_writes>>
    /\ UNCHANGED beside_cache

\* The store answers again.
StoreBack ==
    /\ ~store_up
    /\ store_up' = TRUE
    /\ UNCHANGED <<redis_client, pinging, connects, store, now, ticks, scans, cache_last,
                   cache_budget, other_writes, fresh, purged, stale, expired, job_writes>>
    /\ UNCHANGED beside_cache

\* Time passes (by the shortest time-to-live); the store drops what expired.
Tick ==
    /\ ticks < MaxTicks
    /\ ticks' = ticks + 1
    /\ now' = now + ttl_config.search
    /\ store' = StoreAt(store, now + ttl_config.search)
    /\ fresh' = EmptyDict
    /\ expired' = expired \cup {k \in DOMAIN store : store[k].expires <= now + ttl_config.search}
    /\ UNCHANGED <<redis_client, pinging, connects, store_up, scans, cache_last,
                   cache_budget, other_writes, purged, stale, job_writes>>
    /\ UNCHANGED beside_cache

\* Another client of the same store (the enhanced cache service the tests
\* exercise) writes an entry with a time-to-live.
OtherSetex(key, ttl) ==
    /\ other_writes < MaxOtherWrites
    /\ other_writes' = other_writes + 1
    /\ store_up
    /\ store' = StoreAfterSetex(store, key, ttl, OtherText(key), now)
    /\ Written(key)
    /\ scans' = ScansAfterWrite(key)
    /\ fresh' = [k \in DOMAIN fresh \ {key} |-> fresh[k]]
    /\ UNCHANGED <<redis_client, pinging, connects, store_up, now, ticks, cache_last,
                   cache_budget, job_writes>>
    /\ UNCHANGED beside_cache

\* JobService.create_user_job / update_job: the job is written and committed,
\* and the operation returns; the cache service is not called.
JobWrite ==
    /\ job_writes < MaxJobWrites
    /\ job_writes' = job_writes + 1
    /\ stale' = stale \cup {k \in DOMAIN store : IsJobKey(k)}
    /\ UNCHANGED <<redis_client, pinging, connects, store_up, store, now, ticks, scans,
                   cache_last, cache_budget, other_writes, fresh, purged, expired>>
    /\ UNCHANGED beside_cache

NextCache ==
    \/ \E p \in SearchParams : GetJobSearchResults(p)
    \/ \E p \in SearchParams, results \in SearchResults : SetJobSearchResults(results, p)
    \/ \E id \in CompanyIds : GetCompanyData(id)
    \/ \E id \in CompanyIds, data \in CompanyDatas : SetCompanyData(id, data)
    \/ InvalidateScan
    \/ \E sc \in BagToSet(scans) : InvalidateDelete(sc)
    \/ ConnectStart
    \/ \E c \in pinging : PingReturn(c)
    \/ \E c \in pinging : PingRaise(c)
    \/ StoreDown
    \/ StoreBack
    \/ Tick
    \/ \E key \in StoreKeys, ttl \in {ttl_config.search, ttl_config.company} : OtherSetex(key, ttl)
    \/ JobWrite

SpecCache == InitCache /\ [][NextCache]_vars

\* -------------------------------------------------------- get_cache_service

\* get_cache_service calls and cache reads of a run
MaxServiceCalls == 3

\* A connect() that leaves the client in place when its ping failed.
ClientKeptAfterRaise(c) == c

\* except Exception as e: ... self.redis_client = None
ClientAfterRaise(c) == 0

\* A connect() that assigns self.redis_client when the ping has returned.
AssignedAfterPing == FALSE

\* Is self.redis_client assigned before connect() awaits the ping?
\* self.redis_client = redis_async.from_url(...) is the first statement of the
\* try body, and no await stands between the test in get_cache_service and it.
AssignedBeforePing == TRUE

\* What a get_cache_service call leaves in cache_last when it returns: the
\* client the returned service holds (0: none).
ServiceReturned(end, client) ==
    CacheFinish("get_cache_service", <<>>, None, [end EXCEPT !.ret = PyInt(client)],
                client # 0 /\ store_up, 0, 0)

\* The service after construction; callers about to ask for it.
InitConnect ==
    /\ InitLoaders
    /\ serving = {}
    /\ budget = 0
    /\ InitCacheService
    /\ cache_budget = MaxServiceCalls
    /\ InitNoKey
    /\ InitNoMetrics
    /\ InitNoApplications
    /\ InitNoContext
    /\ InitNoMonitor

\* get_cache_service(): with a client the service is returned at once; with
\* none connect() creates a client and awaits its ping.
GetCacheService ==
    /\ cache_budget > 0
    /\ cache_budget' = cache_budget - 1
    /\ IF redis_client # 0
       THEN /\ ServiceReturned(Returned(None), redis_client)
            /\ UNCHANGED <<redis_client, pinging, connects>>
       ELSE /\ connects' = connects + 1
            /\ pinging' = pinging \cup {connects + 1}
            /\ redis_client' = IF AssignedBeforePing THEN connects + 1 ELSE redis_client
            /\ UNCHANGED cache_last
    /\ UNCHANGED <<store_up, store, now, ticks, scans, other_writes, fresh, purged, stale,
                   expired, job_writes>>
    /\ UNCHANGED beside_cache

\* The ping of client c returns: connect() returns, get_cache_service returns
\* the service.
ConnectReturn(c) ==
    LET client == IF AssignedBeforePing THEN redis_client ELSE c
    IN  /\ c \in pinging
        /\ store_up
        /\ pinging' = pinging \ {c}
        /\ redis_client' = client
        /\ ServiceReturned(Returned(None), client)
        /\ UNCHANGED <<connects, store_up, store, now, ticks, scans, cache_budget,
                       other_writes, fresh, purged, stale, expired, job_writes>>
        /\ UNCHANGED beside_cache

\* The ping of client c raises: the except clause of connect() drops the
\* client, connect() returns, get_cache_service returns the service.
ConnectRaise(c) ==
    /\ c \in pinging
    /\ ~store_up
    /\ pinging' = pinging \ {c}
    /\ redis_client' = ClientAfterRaise(c)
    /\ ServiceReturned(Handled(None), ClientAfterRaise(c))
    /\ UNCHANGED <<connects, store_up, store, now, ticks, scans, cache_budget,
                   other_writes, fresh, purged, stale, expired, job_writes>>
    /\ UNCHANGED beside_cache

NextConnect ==
    \/ GetCacheService
    \/ \E c \in pinging : ConnectReturn(c)
    \/ \E c \in pinging : ConnectRaise(c)
    \/ \E id \in CompanyIds : GetCompanyData(id)
    \/ \E id \in CompanyIds : OtherSetex(CompanyKey[id], ttl_config.company)
    \/ StoreDown
    \/ StoreBack

SpecConnect == InitConnect /\ [][NextConnect]_vars

\* ------------------------------------------------- calls of the key builder

\* longest keyword-argument list handed to the key builder
MaxParams == 3

\* The parameter names and values the calls draw from.
KeyNames == {"limit", "offset", "search", "location"}
KeyValues == {None, PyInt(20), PyStr("python")}

\* Keyword arguments: distinct names, in any order, each with a value.
KwargLists ==
    UNION {{kw \in [1..n -> KeyNames \X KeyValues] :
               \A i, j \in 1..n : i # j => kw[i][1] # kw[j][1]} : n \in 0..MaxParams}

\* A caller is about to call _generate_cache_key(prefix, **kwargs).
InitKeys ==
    /\ InitLoaders
    /\ serving = {}
    /\ budget = 0
    /\ InitCacheService
    /\ cache_budget = 0
    /\ key_prefix \in {"jobs", "search"}
    /\ key_kwargs \in KwargLists
    /\ key_built = <<>>
    /\ InitNoMetrics
    /\ InitNoApplications
    /\ InitNoContext
    /\ InitNoMonitor

\* The call returns the key.
BuildKey ==
    /\ key_built = <<>>
    /\ key_built' = _generate_cache_key(key_prefix, key_kwargs)
    /\ UNCHANGED <<key_prefix, key_kwargs>>
    /\ UNCHANGED beside_keys

NextKeys == BuildKey

SpecKeys == InitKeys /\ [][NextKeys]_vars

(***************************************************************************)
(* Metrics collection (app/core/monitoring.py).                            *)
(*                                                                         *)
(* One MetricsCollector per process keeps rolling windows (deques with a   *)
(* maximum length) of finished requests, database query times, cache       *)
(* operations and cache hit rates.  track_cache_operation is an async      *)
(* context manager: its block is entered, runs the caller's code (which    *)
(* may invoke the yielded callback) and is left, and on leaving it the     *)
(* operation is recorded.                                                  *)
(***************************************************************************)

\* ---------------------------------------------------------------- bounds
\* record calls and tracked blocks of a run
MaxRecords == 3

\* MetricsCollector.__init__(max_history=1000)
max_history == 1000

\* deque(maxlen=100): response_times[...], db_query_times, cache_hit_rate,
\* cache_operations
maxlen == 100

\* list(self.cache_operations)[-50:]
recent_len == 50

\* ------------------------------------------------------- pure functions

\* A deque that never discards.
DequeAppendUnbounded(d, x, n) == Append(d, x)

\* deque(maxlen=n).append(x): when the deque is full the oldest item is
\* discarded.
DequeAppend(d, x, n) == IF Len(d) >= n THEN Tail(d) \o <<x>> ELSE Append(d, x)

\* list(d)[-n:]
LastN(d, n) == IF Len(d) <= n THEN d ELSE SubSeq(d, Len(d) - n + 1, Len(d))

\* defaultdict: d[k] of a missing key is the default value
DefaultGet(d, k, default) == IF k \in DOMAIN d THEN d[k] ELSE default

\* (part / whole) * 100, kept as the exact fraction num / den
Percent(part, whole) == [num |-> part * 100, den |-> whole]

\* The operations a hit rate is computed over: all the retained ones.
AllRetainedOps(cache_operations) == cache_operations

\* recent_ops = list(self.cache_operations)[-50:]
RecentOps(cache_operations) == LastN(cache_operations, recent_len)

\* sum(1 for op in recent_ops if op["hit"])
Hits(ops) == Cardinality({i \in DOMAIN ops : ops[i].hit})

\* f"{metrics.method}:{metrics.path}"
EndpointKey(metrics) == metrics.method \o ":" \o metrics.path

\* A test that takes no status code for an error.
IsNeverError(status_code) == FALSE

\* if metrics.status_code >= 400
IsError(status_code) == status_code >= 400

\* MetricsCollector.record_request: the collector afterwards
record_request(self, metrics) ==
    LET endpoint_key == EndpointKey(metrics)
    IN  [self EXCEPT
            !.request_history = DequeAppend(@, metrics, max_history),
            !.response_times =
                (endpoint_key :> DequeAppend(DefaultGet(@, endpoint_key, <<>>),
                                             metrics.duration_ms, maxlen)) @@ @,
            !.request_counts = (endpoint_key :> (DefaultGet(@, endpoint_key, 0) + 1)) @@ @,
            !.error_counts =
                IF IsError(metrics.status_code)
                THEN (endpoint_key :> (DefaultGet(@, endpoint_key, 0) + 1)) @@ @
                ELSE @]

\* MetricsCollector.record_db_query: the collector afterwards
record_db_query(self, duration_ms) ==
    [self EXCEPT !.db_query_times = DequeAppend(@, duration_ms, maxlen)]

\* The entry record_cache_operation appends to cache_operations.
CacheOperation(operation_type, hit, duration_ms, timestamp) ==
    [type |-> operation_type, hit |-> hit, duration_ms |-> duration_ms, timestamp |-> timestamp]

\* MetricsCollector.record_cache_operation: the collector afterwards
record_cache_operation(self, operation_type, hit, duration_ms, timestamp) ==
    LET cache_operations ==
            DequeAppend(self.cache_operations,
                        CacheOperation(operation_type, hit, duration_ms, timestamp), maxlen)
        recent_ops == RecentOps(cache_operations)
    IN  [self EXCEPT
            !.cache_operations = cache_operations,
            !.cache_hit_rate =
                IF recent_ops # <<>>
                THEN DequeAppend(@, Percent(Hits(recent_ops), Len(recent_ops)), maxlen)
                ELSE @]

\* ------------------------------------------------- a collector in service

\* The i-th request a collector in service has recorded: GraphQL requests, one
\* in ten failed.
WarmRequest(i) ==
    [path |-> "/graphql", method |-> "POST",
     status_code |-> IF i % 10 = 0 THEN 500 ELSE 200,
     duration_ms |-> i % 7, timestamp |-> i]

\* The duration of its i-th database query.
WarmQuery(i) == i % 5

\* Its i-th cache operation: one in three a hit.
WarmOp(i) == CacheOperation("get", i % 3 = 0, i % 4, i)

\* The collector after the events from..to of a kind were recorded, one record
\* call per event (the first half of the events, then the second).
RECURSIVE Warmed(_, _, _, _)
Warmed(self, kind, from, to) ==
    IF from > to THEN self
    ELSE IF from = to
    THEN CASE kind = "requests" -> record_request(self, WarmRequest(from))
           [] kind = "queries"  -> record_db_query(self, WarmQuery(from))
           [] kind = "ops"      ->
                record_cache_operation(self, WarmOp(from).type, WarmOp(from).hit,
                                       WarmOp(from).duration_ms, WarmOp(from).timestamp)
    ELSE LET mid == (from + to) \div 2
         IN  CHOOSE after \in {Warmed(half, kind, mid + 1, to) :
                                  half \in {Warmed(self, kind, from, mid)}} : TRUE

\* How much a collector has recorded when the run starts: nothing, or as many
\* events as a window holds.
WarmStarts ==
    [requests : {0, max_history}, queries : {0, maxlen}, ops : {0, recent_len, maxlen}]

\* A collector in service, the callers about to make MaxRecords calls.
InitMetrics ==
    /\ InitLoaders
    /\ serving = {}
    /\ budget = 0
    /\ InitCacheService
    /\ cache_budget = 0
    /\ InitNoKey
    /\ warm \in WarmStarts
    /\ metrics_collector =
          Warmed(Warmed(Warmed(NewMetricsCollector, "requests", 1, warm.requests),
                        "queries", 1, warm.queries),
                 "ops", 1, warm.ops)
    /\ utcnow = max_history
    /\ tracked = EmptyBag
    /\ track_last = NoTrack
    /\ metrics_budget = MaxRecords
    /\ arrived = [requests |-> <<>>, queries |-> <<>>, ops |-> <<>>]
    /\ InitNoApplications
    /\ InitNoContext
    /\ InitNoMonitor

\* -------------------------------------------------------------- actions

\* The requests, query durations and cache operations of the run.
Paths == {"/graphql", "/health"}
StatusCodes == {200, 500}
Durations == {1, 7}
OperationTypes == {"get"}

\* PerformanceMiddleware.dispatch records a finished request.
RecordRequest(path, status_code, duration_ms) ==
    LET metrics == [path |-> path, method |-> IF path = "/graphql" THEN "POST" ELSE "GET",
                    status_code |-> status_code, duration_ms |-> duration_ms,
                    timestamp |-> utcnow + 1]
    IN  /\ metrics_budget > 0
        /\ metrics_budget' = metrics_budget - 1
        /\ utcnow' = utcnow + 1
        /\ metrics_collector' = record_request(metrics_collector, metrics)
        /\ arrived' = [arrived EXCEPT !.requests = Append(@, metrics)]
        /\ UNCHANGED <<tracked, track_last, warm>>
        /\ UNCHANGED beside_metrics

\* track_database_query records the duration of a query.
RecordDbQuery(duration_ms) ==
    /\ metrics_budget > 0
    /\ metrics_budget' = metrics_budget - 1
    /\ utcnow' = utcnow + 1
    /\ metrics_collector' = record_db_query(metrics_collector, duration_ms)
    /\ arrived' = [arrived EXCEPT !.queries = Append(@, duration_ms)]
    /\ UNCHANGED <<tracked, track_last, warm>>
    /\ UNCHANGED beside_metrics

\* A caller of get_metrics_collector() records a cache operation.
RecordCacheOperation(operation_type, hit, duration_ms) ==
    /\ metrics_budget > 0
    /\ metrics_budget' = metrics_budget - 1
    /\ utcnow' = utcnow + 1
    /\ metrics_collector' =
          record_cache_operation(metrics_collector, operation_type, hit, duration_ms, utcnow + 1)
    /\ arrived' = [arrived EXCEPT
                      !.ops = Append(@, CacheOperation(operation_type, hit, duration_ms, utcnow + 1))]
    /\ UNCHANGED <<tracked, track_last, warm>>
    /\ UNCHANGED beside_metrics

\* The types whose instances have no __dict__ and no settable attributes.
BuiltinTypes == {"dict", "list", "tuple", "int", "str"}

\* type(locals()).__name__
LocalsType == "dict"

\* A setattr that always succeeds.
SetattrSucceeds(type, name) == "returned"

\* setattr(obj, name, value) on an instance of a type: AttributeError when
\* the instance takes no attributes.
Setattr(type, name) == IF type \in BuiltinTypes THEN "AttributeError" ELSE "returned"

\* A callback that sets the flag of the block.
HitSetByCallback(hit) == TRUE

\* The local variable `hit` of track_cache_operation after the callback
\* lambda: setattr(locals(), 'hit', True) ran: locals() of the lambda is a
\* dict of its own, the variable of the enclosing frame is not assigned.
HitAfterCallback(hit) == hit

\* `async with track_cache_operation(operation_type) as op:` is entered:
\* start_time is read, hit = False, the dict with the callback is yielded.
TrackEnter(operation_type) ==
    /\ metrics_budget > 0
    /\ metrics_budget' = metrics_budget - 1
    /\ tracked' = tracked (+) SetToBag({[operation_type |-> operation_type,
                                         start_time |-> utcnow, hit |-> FALSE,
                                         invoked |-> FALSE, exc |-> ""]})
    /\ track_last' = [operation_type |-> operation_type, did |-> "enter",
                      callback |-> "", outcome |-> ""]
    /\ UNCHANGED <<metrics_collector, utcnow, warm, arrived>>
    /\ UNCHANGED beside_metrics

\* The tracked block calls op["hit"]().  An exception of the call is raised in
\* the block: the block handles it (catches) and goes on, or is left by it.
InvokeHit(b, catches) ==
    LET callback == Setattr(LocalsType, "hit")
        exc      == IF callback = "returned" \/ catches THEN "" ELSE callback
    IN  /\ BagIn(b, tracked)
        /\ ~b.invoked
        /\ b.exc = ""
        /\ tracked' = (tracked (-) SetToBag({b}))
                      (+) SetToBag({[b EXCEPT !.invoked = TRUE, !.exc = exc,
                                              !.hit = HitAfterCallback(b.hit)]})
        /\ track_last' = [operation_type |-> b.operation_type, did |-> "invoke",
                          callback |-> callback, outcome |-> ""]
        /\ UNCHANGED <<metrics_collector, utcnow, metrics_budget, warm, arrived>>
        /\ UNCHANGED beside_metrics

\* The tracked block is left, normally or by an exception: the finally clause
\* records the operation, then the exception, if any, goes on to the caller.
TrackExit(b) ==
    LET duration_ms == (utcnow + 1) - b.start_time
    IN  /\ BagIn(b, tracked)
        /\ tracked' = tracked (-) SetToBag({b})
        /\ utcnow' = utcnow + 1
        /\ metrics_collector' =
              record_cache_operation(metrics_collector, b.operation_type, b.hit,
                                     duration_ms, utcnow + 1)
        /\ arrived' = [arrived EXCEPT
                          !.ops = Append(@, CacheOperation(b.operation_type, b.hit,
                                                          duration_ms, utcnow + 1))]
        /\ track_last' = [operation_type |-> b.operation_type, did |-> "exit",
                          callback |-> IF b.invoked THEN Setattr(LocalsType, "hit") ELSE "",
                          outcome |-> IF b.exc = "" THEN "returned" ELSE "raised"]
        /\ UNCHANGED <<metrics_budget, warm>>
        /\ UNCHANGED beside_metrics

NextMetrics ==
    \/ \E path \in Paths, status_code \in StatusCodes : RecordRequest(path, status_code, 7)
    \/ \E duration_ms \in Durations : RecordDbQuery(duration_ms)
    \/ \E operation_type \in OperationTypes, hit \in BOOLEAN :
          RecordCacheOperation(operation_type, hit, 1)
    \/ \E operation_type \in OperationTypes : TrackEnter(operation_type)
    \/ \E b \in BagToSet(tracked), catches \in BOOLEAN : InvokeHit(b, catches)
    \/ \E b \in BagToSet(tracked) : TrackExit(b)

SpecMetrics == InitMetrics /\ [][NextMetrics]_vars

\* ------------------------------------------------- PerformanceMiddleware

\* requests that arrive in a run
MaxDispatches == 3

\* The addresses the request objects are allocated at: id(request).  Objects
\* that are alive at the same time have different addresses.
Addresses == 1..2

\* str(request_id)
RequestKey(request_id) == ToString(request_id)

\* The exceptions call_next raises: one `except Exception` catches, and one it
\* does not (asyncio.CancelledError is a BaseException).
HandlerExceptions == {"Exception", "CancelledError"}

\* A clause that runs only when the try body returned.
RunsOnReturn(exc) == exc = ""

\* try: ... finally: the finally clause runs however the try body is left.
FinallyRuns(exc) == TRUE

\* status_code=response.status_code if response else 500
RecordedStatus(response) == IF response # None THEN response.status_code ELSE 500

\* d.pop(key, None)
DictPop(d, key) == [k \in DOMAIN d \ {key} |-> d[k]]

\* A collector in service and no request in the middleware.
InitDispatch ==
    /\ InitLoaders
    /\ serving = {}
    /\ budget = 0
    /\ InitCacheService
    /\ cache_budget = 0
    /\ InitNoKey
    /\ warm \in {w \in WarmStarts : w.queries = 0 /\ w.ops = 0}
    /\ metrics_collector = Warmed(NewMetricsCollector, "requests", 1, warm.requests)
    /\ utcnow = max_history
    /\ tracked = EmptyBag
    /\ track_last = NoTrack
    /\ metrics_budget = 0
    /\ arrived = [requests |-> <<>>, queries |-> <<>>, ops |-> <<>>]
    /\ InitNoApplications
    /\ InitNoContext
    /\ active_requests = EmptyDict
    /\ dispatching = {}
    /\ dispatch_last = NoDispatch
    /\ monitor_budget = MaxDispatches
    /\ InitNoSampling

\* dispatch up to `await call_next(request)`: the request is entered in
\* active_requests under str(id(request)).
DispatchEnter(request_id, path) ==
    /\ monitor_budget > 0
    /\ monitor_budget' = monitor_budget - 1
    /\ \A d \in dispatching : d.request_id # request_id
    /\ active_requests' = (RequestKey(request_id) :> utcnow) @@ active_requests
    /\ dispatching' = dispatching \cup {[request_id |-> request_id, path |-> path,
                                          start_time |-> utcnow]}
    /\ UNCHANGED <<dispatch_last, metrics_vars, system_metrics, sampler, health_last>>
    /\ UNCHANGED beside_monitor

\* dispatch from the return of call_next: with a response (exc = "") the try
\* body is done; with an exception the except clause notes and re-raises an
\* Exception.  The finally clause removes the request from active_requests
\* and records it; then the response is returned or the exception goes on.
DispatchLeave(d, response, exc) ==
    LET errors  == IF exc = "Exception" THEN <<exc>> ELSE <<>>
        metrics == [path |-> d.path, method |-> IF d.path = "/graphql" THEN "POST" ELSE "GET",
                    status_code |-> RecordedStatus(response),
                    duration_ms |-> (utcnow + 1) - d.start_time,
                    timestamp |-> utcnow + 1]
    IN  /\ d \in dispatching
        /\ (response = None) = (exc # "")
        /\ dispatching' = dispatching \ {d}
        /\ utcnow' = utcnow + 1
        /\ IF FinallyRuns(exc)
           THEN /\ active_requests' = DictPop(active_requests, RequestKey(d.request_id))
                /\ metrics_collector' = record_request(metrics_collector, metrics)
                /\ arrived' = [arrived EXCEPT !.requests = Append(@, metrics)]
           ELSE UNCHANGED <<active_requests, metrics_collector, arrived>>
        /\ dispatch_last' = [request_id |-> d.request_id,
                             outcome |-> IF exc = "" THEN "returned" ELSE "raised",
                             exc |-> exc, status_code |-> RecordedStatus(response),
                             errors |-> errors]
        /\ UNCHANGED <<monitor_budget, tracked, track_last, metrics_budget, warm,
                       system_metrics, sampler, health_last>>
        /\ UNCHANGED beside_monitor

\* call_next returns a response.
HandlerReturn(d, status_code) == DispatchLeave(d, [status_code |-> status_code], "")

\* call_next raises.
HandlerRaise(d, exc) == DispatchLeave(d, None, exc)

NextDispatch ==
    \/ \E request_id \in Addresses, path \in Paths : DispatchEnter(request_id, path)
    \/ \E d \in dispatching, status_code \in StatusCodes : HandlerReturn(d, status_code)
    \/ \E d \in dispatching, exc \in HandlerExceptions : HandlerRaise(d, exc)

SpecDispatch == InitDispatch /\ [][NextDispatch]_vars

\* ---------------------------------------------------- get_health_status

\* longest request history a health report is made from
MaxHistory == 2

\* Numbers with a fraction are kept in hundredths: 12.5 is 1250.
Hundredths(x) == x * 100

\* round(num / den, 2), in hundredths (a tie is rounded up)
Round2(num, den) == (200 * num + den) \div (2 * den)

\* sum(f(x) for x in seq)
RECURSIVE SumSeq(_, _)
SumSeq(seq, field) ==
    IF seq = <<>> THEN 0 ELSE seq[1][field] + SumSeq(Tail(seq), field)

\* get_performance_summary(minutes) read at time clock (in seconds): the
\* fields get_health_status reads.
get_performance_summary(self, minutes, clock) ==
    LET cutoff_time     == clock - minutes * 60
        recent_requests == SelectSeq(self.request_history,
                                     LAMBDA req : req.timestamp >= cutoff_time)
        total_requests  == Len(recent_requests)
        error_count     == Len(SelectSeq(recent_requests, LAMBDA req : req.status_code >= 400))
    IN  IF recent_requests = <<>>
        THEN [message |-> "No recent requests", timeframe_minutes |-> minutes]
        ELSE [timeframe_minutes |-> minutes,
              total_requests |-> total_requests,
              avg_response_time_ms |->
                  Round2(SumSeq(recent_requests, "duration_ms"), total_requests),
              error_rate_percent |-> Round2(error_count * 100, total_requests),
              error_count |-> error_count]

\* A status that a later check only ever makes more severe.
StatusNeverLowered(status, found) ==
    IF status = "unhealthy" \/ found = "unhealthy" THEN "unhealthy"
    ELSE IF found = "" THEN status ELSE found

\* status after a check: the check assigns the level it found, if any
StatusAssigned(status, found) == IF found = "" THEN status ELSE found

\* MetricsCollector.get_health_status: status and issues
get_health_status(self, samples, clock) ==
    LET recent_summary    == get_performance_summary(self, 5, clock)
        error_rate        == DefaultGet(recent_summary, "error_rate_percent", 0)
        avg_response_time == DefaultGet(recent_summary, "avg_response_time_ms", 0)
        cpu_values        == samples.cpu_percent
        memory_values     == samples.memory_percent
        found_errors == IF error_rate > Hundredths(10) THEN "unhealthy"
                        ELSE IF error_rate > Hundredths(5) THEN "degraded" ELSE ""
        found_slow   == IF avg_response_time > Hundredths(2000) THEN "unhealthy"
                        ELSE IF avg_response_time > Hundredths(1000) THEN "degraded" ELSE ""
        found_cpu    == IF cpu_values # <<>> /\ cpu_values[Len(cpu_values)] > 90
                        THEN "unhealthy" ELSE ""
        found_memory == IF memory_values # <<>> /\ memory_values[Len(memory_values)] > 90
                        THEN "unhealthy" ELSE ""
        checks       == <<[issue |-> "error rate", found |-> found_errors],
                          [issue |-> "response time", found |-> found_slow],
                          [issue |-> "CPU usage", found |-> found_cpu],
                          [issue |-> "memory usage", found |-> found_memory]>>
        status1 == StatusAssigned("healthy", found_errors)
        status2 == StatusAssigned(status1, found_slow)
        status3 == StatusAssigned(status2, found_cpu)
        status4 == StatusAssigned(status3, found_memory)
    IN  [status |-> status4,
         issues |-> SelectSeq(checks, LAMBDA check : check.found # "")]

\* The requests of a history: failed or not, fast or slow, older or newer than
\* the five minutes of the report.
HealthRequests ==
    [path : {"/graphql"}, method : {"POST"}, status_code : StatusCodes,
     duration_ms : {500, 1500, 2500}, timestamp : {0, 600}]

\* The histories: requests in the order they finished.
Histories ==
    {h \in UNION {[1..n -> HealthRequests] : n \in 0..MaxHistory} :
        \A i \in 1..(Len(h) - 1) : h[i].timestamp <= h[i + 1].timestamp}

\* The collector after record_request of each request of a history.
RECURSIVE RecordAll(_, _)
RecordAll(self, history) ==
    IF history = <<>> THEN self
    ELSE RecordAll(record_request(self, history[1]), Tail(history))

\* The samples taken: none, or a latest sample of CPU and memory.
SampleSets ==
    {NoSamples} \cup
    {[cpu_percent |-> <<cpu>>, memory_percent |-> <<memory>>, memory_used_mb |-> <<1024>>] :
        cpu \in {50, 95}, memory \in {50, 95}}

\* A collector that has recorded a history and samples, ten minutes after the
\* first request.
InitHealth ==
    /\ InitLoaders
    /\ serving = {}
    /\ budget = 0
    /\ InitCacheService
    /\ cache_budget = 0
    /\ InitNoKey
    /\ warm = [requests |-> 0, queries |-> 0, ops |-> 0]
    /\ \E history \in Histories :
          /\ metrics_collector = RecordAll(NewMetricsCollector, history)
          /\ arrived = [requests |-> history, queries |-> <<>>, ops |-> <<>>]
    /\ utcnow = 600
    /\ tracked = EmptyBag
    /\ track_last = NoTrack
    /\ metrics_budget = 0
    /\ InitNoApplications
    /\ InitNoContext
    /\ InitNoDispatch
    /\ system_metrics \in SampleSets
    /\ sampler = [at |-> "sleep30", from |-> "created",
                  tried |-> Len(system_metrics.cpu_percent)]
    /\ health_last = NoHealth

\* A caller of get_metrics_collector() asks for the health status.
GetHealthStatus ==
    /\ health_last = NoHealth
    /\ health_last' = get_health_status(metrics_collector, system_metrics, utcnow)
    /\ UNCHANGED <<dispatch_vars, system_metrics, sampler, metrics_vars>>
    /\ UNCHANGED beside_monitor

NextHealth == GetHealthStatus

SpecHealth == InitHealth /\ [][NextHealth]_vars

\* ------------------------------------------------ collect_system_metrics

\* deque(maxlen=60) of each system metric
samples_len == 60

\* A task that ends with the exception of a sample.
TaskEndsOnError == "done"

\* Where the task waits after a sample raised: except Exception logs the
\* error and awaits asyncio.sleep(60) inside the while True loop.
AfterSamplingError == "sleep60"

\* Where the task can be when the event loop runs it next: just created, or
\* in one of its two sleeps.
Waits == {"created", "sleep30", "sleep60"}

\* MetricsCollector() was constructed on a running event loop: the task is
\* created and has not run yet.
InitSampling ==
    /\ InitLoaders
    /\ serving = {}
    /\ budget = 0
    /\ InitCacheService
    /\ cache_budget = 0
    /\ InitNoKey
    /\ InitNoMetrics
    /\ InitNoApplications
    /\ InitNoContext
    /\ InitNoMonitor

\* The task runs (first run, or a sleep is over): psutil returns the CPU and
\* memory figures, they are appended, and the task sleeps 30 seconds.
SampleTaken(cpu_percent, memory) ==
    /\ sampler.at \in Waits
    /\ system_metrics' =
          [cpu_percent |-> DequeAppend(system_metrics.cpu_percent, cpu_percent, samples_len),
           memory_percent |->
               DequeAppend(system_metrics.memory_percent, memory.percent, samples_len),
           memory_used_mb |->
               DequeAppend(system_metrics.memory_used_mb, memory.used_mb, samples_len)]
    /\ sampler' = [at |-> "sleep30", from |-> sampler.at, tried |-> 1 - sampler.tried]
    /\ UNCHANGED <<dispatch_vars, health_last, metrics_vars>>
    /\ UNCHANGED beside_monitor

\* The task runs and psutil raises: nothing is appended, the error is logged
\* and the task sleeps 60 seconds.
SampleRaises ==
    /\ sampler.at \in Waits
    /\ sampler' = [at |-> AfterSamplingError, from |-> sampler.at, tried |-> 1 - sampler.tried]
    /\ UNCHANGED <<dispatch_vars, system_metrics, health_last, metrics_vars>>
    /\ UNCHANGED beside_monitor

NextSampling ==
    \/ SampleTaken(50, [percent |-> 50, used_mb |-> 1024])
    \/ SampleRaises

\* The event loop keeps running: a task that is ready, or whose sleep is over,
\* is run.
SpecSampling == InitSampling /\ [][NextSampling]_vars /\ WF_vars(NextSampling)

\* ------------------------------------------------------------ properties

\* The part of a bag whose elements satisfy Keep.
BagFilter(B, Keep(_)) == [e \in {x \in BagToSet(B) : Keep(x)} |-> B[e]]

\* The ids in a key list.
KeySet(keys) == {keys[i] : i \in DOMAIN keys}

\* The suspended load(key) calls on a loader.
PendingLoads(l, key) ==
    BagFilter(pending, LAMBDA p : p.loader = l /\ p.op = "load" /\ p.keys = <<key>>)

\* The unfinished batch_fn invocations of a loader that fetch a key.
InFlightFor(l, key) ==
    BagFilter(inflight, LAMBDA f : f.loader = l /\ key \in KeySet(f.keys))

\* The calls whose outcome the state records: the suspended ones and the one
\* that finished last.
Fetching == BagToSet(pending) \cup (IF last.fetched THEN {last} ELSE {})

\* C1: within one registry, a key that the memo of a loader already holds is
\* never passed to the batch fetch function again: a call that overlaps an
\* earlier one (load(A), then load_many([A, B])) is served from the memo.
C1_MemoizedKeyNotRefetched ==
    \A call \in Fetching : ~call.known

\* C2: load calls with distinct keys that are suspended on one loader at the
\* same time are served by one batch_fn invocation, made with all their keys.
C2_OneFetchPerTick ==
    \A p, q \in BagToSet(pending) :
        (p.loader = q.loader /\ p.op = "load" /\ q.op = "load" /\ p.keys # q.keys)
        => /\ BagCardinality(BagFilter(inflight, LAMBDA f : f.loader = p.loader)) = 1
           /\ \E f \in BagToSet(inflight) :
                 f.loader = p.loader /\ KeySet(p.keys) \cup KeySet(q.keys) \subseteq KeySet(f.keys)

\* C3: N >= 2 load(k) calls suspended on one loader at the same time share a
\* single batch_fn invocation for k.
C3_SingleFlight ==
    \A p \in BagToSet(pending) :
        (p.op = "load" /\ BagCardinality(PendingLoads(p.loader, p.keys[1])) >= 2)
        => BagCardinality(InFlightFor(p.loader, p.keys[1])) = 1

\* The entity a table snapshot holds for an id, None if it holds no row.
EntityAt(snap, id) == IF snap[id] > 0 THEN Entity(id, snap[id]) ELSE None

\* A result list answers a key list position by position.
Aligned(keys, entities) ==
    /\ Len(entities) = Len(keys)
    /\ \A i \in DOMAIN keys : entities[i] = None \/ entities[i].id = keys[i]
    /\ \A i, j \in DOMAIN keys : keys[i] = keys[j] => entities[i] = entities[j]

\* C4: load_many(ks) returns a list of the length of ks whose i-th element is
\* the entity for ks[i], the same at every occurrence of a duplicated key,
\* whatever the order of the rows: when the list is fetched it is the store's
\* content at the fetch, and every memoized list (hence every list served from
\* the memo) is aligned with the key list it is memoized for.
C4_LoadManyAligned ==
    /\ (last.op = "load_many" /\ last.outcome = "ok")
       => /\ Aligned(last.keys, last.ret)
          /\ last.fetched => \A i \in DOMAIN last.keys :
                                last.ret[i] = EntityAt(last.snap, last.keys[i])
    /\ \A l \in DOMAIN loaders : \A ks \in KeyLists :
          (l.kind \in BatchKinds /\ CacheKey(LoaderKeyOf(l.kind), ks) \in DOMAIN loaders[l]._cache)
          => Aligned(ks, loaders[l]._cache[CacheKey(LoaderKeyOf(l.kind), ks)])

\* C4 witness: load_many([2, 1]) is served from the memo with both entities,
\* after a fetch that found both rows.
C4_Witness ==
    /\ last.op = "load_many" /\ last.outcome = "ok" /\ ~last.fetched
    /\ last.keys = <<2, 1>>
    /\ last.ret[1] # None /\ last.ret[2] # None

\* C5: a key without a row resolves to None at its position: load returns
\* None, load_many has None at that index and the entities of the other keys
\* at theirs; the call returns, it does not raise.
C5_AbsentIsNone ==
    (last.fetched /\ last.outcome = "ok")
    => IF last.op = "load"
       THEN last.ret = EntityAt(last.snap, last.keys[1])
       ELSE /\ Len(last.ret) = Len(last.keys)
            /\ \A i \in DOMAIN last.keys :
                  /\ last.snap[last.keys[i]] = 0 => last.ret[i] = None
                  /\ last.snap[last.keys[i]] > 0 => last.ret[i] = Entity(last.keys[i], last.snap[last.keys[i]])

\* C5 witness: load_many([2, 1]) returned None for the absent 2 and the entity
\* of 1.
C5_Witness ==
    /\ last.op = "load_many" /\ last.outcome = "ok" /\ last.fetched
    /\ last.keys = <<2, 1>>
    /\ last.ret = <<None, Entity(1, 1)>>

\* C6: a load(k) that starts after a load(k) on the same loader has returned
\* does not invoke the batch fetch function, and returns the value the earlier
\* load returned.
C6_SequentialLoadsAgree ==
    /\ \A call \in Fetching : ~call.sequel
    /\ (last.op = "load" /\ last.outcome = "ok" /\ ~last.fetched)
       => \A v \in returned :
             (v.loader = last.loader /\ v.key = last.keys[1]) => v.value = last.ret

\* C7: when the fetch of a suspended load(A) raises, a load(B) suspended on the
\* same loader at that moment receives the error as well: it does not stay
\* suspended to be answered by a fetch of its own.
C7_FailureReachesEveryCaller ==
    [][\A call \in BagToSet(pending) :
          (call.op = "load" /\ FetchRaise(call))
          => \A other \in BagToSet(pending') :
                ~(other.loader = call.loader /\ other.op = "load" /\ other.keys # call.keys)]_vars

\* The registry of a context, if it has been created.
Registries == {c \in Requests : contexts[c]._dataloaders # None}

\* The calls the state records: the suspended ones and the one that finished
\* last.
Recorded == BagToSet(pending) \cup (IF last.req \in Requests THEN {last} ELSE {})

\* C8: loaders are never shared between requests: the registries of two
\* requests hold different loader instances, every call reads and writes the
\* memo of a loader of its own request's registry, bound to its own request's
\* session, and every fetch that will write a memo was invoked by the request
\* that owns it; a memo hit is answered from the caller's own registry.
C8_NoCrossRequestMemo ==
    /\ \A c1, c2 \in Registries :
          c1 # c2 => LoadersOf(contexts[c1]._dataloaders) \cap LoadersOf(contexts[c2]._dataloaders) = {}
    /\ \A call \in Recorded :
          /\ call.req \in Registries
          /\ call.loader \in LoadersOf(contexts[call.req]._dataloaders)
          /\ call.loader.db_session = call.req
    /\ \A f \in BagToSet(inflight) : f.loader.db_session = f.req

\* C8 witness: request 2 fetched load(1) itself although the memo of request 1
\* already held key 1.
C8_Witness ==
    /\ last.req = 2 /\ last.op = "load" /\ last.keys = <<1>> /\ last.fetched
    /\ 1 \in Registries
    /\ LoadersOf(contexts[1]._dataloaders) # {}
    /\ \E l \in LoadersOf(contexts[1]._dataloaders) :
          l.kind = "company" /\ CacheKey("companies", <<1>>) \in DOMAIN loaders[l]._cache

\* C9: in one registry every getter returns one and the same loader instance:
\* the loader exists from the first call of its getter and not before, and no
\* second loader of a kind is ever constructed.
C9_OneLoaderPerKind ==
    \A c \in Requests : \A kind \in LoaderKinds :
        LET made == {l \in DOMAIN loaders : l.db_session = c /\ l.kind = kind}
        IN  /\ Cardinality(got[c][kind]) <= 1
            /\ made = got[c][kind]
            /\ (c \in Registries /\ kind \in DOMAIN contexts[c]._dataloaders._loaders)
               <=> got[c][kind] # {}
            /\ got[c][kind] # {} => got[c][kind] = {contexts[c]._dataloaders._loaders[kind]}

\* C9 witness: the company getter was called three times and the
\* job_application getter at least once; each has its single loader.
C9_Witness ==
    /\ budget = 0
    /\ Cardinality(got[1]["company"]) = 1
    /\ Cardinality(got[1]["job_application"]) = 1

\* C10 as stated: after clear_cache the registry holds no loader instance and
\* every memo map is empty.
C10_ClearDropsLoaders ==
    [][\A r \in Requests :
          (ClearDataloaders(r) /\ contexts[ContextOf(r)]._dataloaders # None)
          => /\ LoadersOf(contexts'[ContextOf(r)]._dataloaders) = {}
             /\ \A l \in LoadersOf(contexts[ContextOf(r)]._dataloaders) :
                   loaders'[l]._cache = EmptyDict]_vars

\* C10 amended: after clear_cache every memo map of the registry's loaders is
\* empty and the registry holds the same loader instances as before, so a
\* getter called afterwards returns the existing loader.
C10_ClearEmptiesMemos ==
    [][\A r \in Requests :
          (ClearDataloaders(r) /\ contexts[ContextOf(r)]._dataloaders # None)
          => /\ contexts'[ContextOf(r)]._dataloaders._loaders = contexts[ContextOf(r)]._dataloaders._loaders
             /\ DOMAIN loaders' = DOMAIN loaders
             /\ \A l \in LoadersOf(contexts[ContextOf(r)]._dataloaders) :
                   loaders'[l]._cache = EmptyDict]_vars

\* C10 witness: the registry of request 1 was cleared after a fetch had filled
\* the company memo; the loader is still registered and its memo is empty.
C10_Witness ==
    /\ clears[1] = 1
    /\ pending = EmptyBag
    /\ last.fetched /\ last.outcome = "ok"
    /\ 1 \in Registries
    /\ "company" \in DOMAIN contexts[1]._dataloaders._loaders
    /\ loaders[contexts[1]._dataloaders._loaders["company"]]._cache = EmptyDict

\* C11: when clear_cache runs while a batch fetch of one of the registry's
\* loaders is in flight, the later completion of that fetch writes into no memo
\* map, and its failure is not surfaced as an error.
C11_TeardownDiscardsFetches ==
    [][\A call \in BagToSet(pending) :
          call.orphan => /\ FetchReturn(call) => loaders' = loaders
                         /\ FetchRaise(call) => last'.outcome # "error"]_vars

\* ------------------------------------------- properties of the cache service

GetOps == {"get_job_search_results", "get_company_data"}
SetOps == {"set_job_search_results", "set_company_data"}

\* C12: with the store unavailable (no client, or its commands raising) a get
\* returns a miss, a set returns False and stores nothing, and
\* invalidate_job_caches returns normally deleting nothing; none of the
\* operations ever ends with an exception.
C12_FailOpen ==
    [][cache_last'.n # cache_last.n
       => /\ cache_last'.outcome = "returned"
          /\ ~cache_last'.reachable
             => /\ store' = store
                /\ cache_last'.op \in GetOps => cache_last'.ret = None
                /\ cache_last'.op \in SetOps => cache_last'.ret = PyBool(FALSE)
                /\ cache_last'.op = "invalidate_job_caches" => cache_last'.ret = None]_vars

\* C12 witness: a get_job_search_results missed, with a client whose store
\* was down, although the store holds the key.
C12_Witness ==
    /\ cache_last.op = "get_job_search_results"
    /\ cache_last.outcome = "returned" /\ cache_last.ret = None
    /\ redis_client # 0 /\ ~store_up
    /\ cache_last.key \in DOMAIN store

\* C13: with the store reachable a set stores an entry under its key with the
\* default time-to-live of the namespace (search 180 s, company 3600 s) and
\* returns True.
C13_SetStoresWithDefaultTtl ==
    [][(cache_last'.n # cache_last.n /\ cache_last'.op \in SetOps /\ cache_last'.reachable)
       => /\ cache_last'.ret = PyBool(TRUE)
          /\ cache_last'.key \in DOMAIN store'
          /\ store'[cache_last'.key].expires =
                now + (IF cache_last'.op = "set_job_search_results" THEN 180 ELSE 3600)]_vars

\* C14: a get that follows a set of a value for the same parameters, with the
\* store reachable and no expiry or invalidation in between, returns that
\* value.
C14_RoundTrip ==
    [][(/\ cache_last'.n # cache_last.n
        /\ cache_last'.op \in GetOps
        /\ cache_last'.reachable
        /\ cache_last'.key \in DOMAIN fresh)
       => cache_last'.ret = fresh[cache_last'.key]]_vars

\* C15: once an invalidate_job_caches that no set ran into has returned with
\* the store reachable, no key that was cached in the jobs namespace before it
\* is in the store, and a get for such a key misses, until the key is set
\* again.
C15_InvalidatedKeysMiss ==
    [][/\ purged' \cap DOMAIN store' = {}
       /\ (/\ cache_last'.n # cache_last.n
           /\ cache_last'.op = "get_job_search_results"
           /\ cache_last'.reachable
           /\ cache_last'.key \in purged)
          => cache_last'.ret = None]_vars

\* C15 witness: a get_job_search_results missed, with the store reachable, on a
\* key an invalidation removed.
C15_Witness ==
    /\ cache_last.op = "get_job_search_results"
    /\ cache_last.reachable
    /\ cache_last.key \in purged
    /\ cache_last.ret = None

\* C16: when a job create or update has returned, the job-search namespace
\* holds no entry cached before it, and a get that starts afterwards is not
\* served an entry cached before the write.
C16_WriteInvalidatesSearchCache ==
    [][/\ JobWrite => \A k \in DOMAIN store' : ~IsJobKey(k)
       /\ (/\ cache_last'.n # cache_last.n
           /\ cache_last'.op = "get_job_search_results"
           /\ cache_last'.key \in stale)
          => cache_last'.ret = None]_vars

C20_SetBetweenScanAndDeleteSurvives ==
    [][\A sc \in BagToSet(scans) :
          (InvalidateDelete(sc) /\ redis_client # 0 /\ store_up)
          => /\ sc.job_keys \cap DOMAIN store' = {}
             /\ \A k \in (sc.sets \cap DOMAIN fresh) \ sc.job_keys : k \in DOMAIN store']_vars

\* C24: a cache operation called, with the store reachable, with a parameter
\* set from which no key can be built ends with an exception raised to its
\* caller; it does not return a miss (None) or a failed write (False).
C24_MalformedKeyRaises ==
    [][(/\ cache_last'.n # cache_last.n
        /\ cache_last'.op \in GetOps \cup SetOps
        /\ cache_last'.reachable
        /\ cache_last'.key = NoKey)
       => cache_last'.outcome = "raised"]_vars

\* The orders in which the same keyword arguments can be passed.
Reorderings(kwargs) ==
    {kw \in [DOMAIN kwargs -> {kwargs[i] : i \in DOMAIN kwargs}] :
        \A i, j \in DOMAIN kwargs : i # j => kw[i] # kw[j]}

\* C19: the key built for a prefix and a set of name/value pairs does not
\* depend on the order in which the pairs are passed: every reordering of the
\* arguments of a call builds the key the call returned.
C19_KeyIgnoresParameterOrder ==
    key_built # <<>>
    => \A kw \in Reorderings(key_kwargs) : _generate_cache_key(key_prefix, kw) = key_built

\* C19 witness: a key was built from three arguments passed in descending
\* order of their names.
C19_Witness ==
    /\ key_built # <<>>
    /\ Len(key_kwargs) = 3
    /\ key_kwargs[1][1] = "search" /\ key_kwargs[2][1] = "offset" /\ key_kwargs[3][1] = "limit"

\* ------------------------------------- properties of the metrics collector

\* Every request recorded so far, in arrival order.
AllRequests ==
    [i \in 1..(warm.requests + Len(arrived.requests)) |->
        IF i <= warm.requests THEN WarmRequest(i) ELSE arrived.requests[i - warm.requests]]

\* Every database query time recorded so far, in arrival order.
AllQueries ==
    [i \in 1..(warm.queries + Len(arrived.queries)) |->
        IF i <= warm.queries THEN WarmQuery(i) ELSE arrived.queries[i - warm.queries]]

\* Every cache operation recorded so far, in arrival order.
AllOps ==
    [i \in 1..(warm.ops + Len(arrived.ops)) |->
        IF i <= warm.ops THEN WarmOp(i) ELSE arrived.ops[i - warm.ops]]

\* The response times recorded so far for an endpoint key, in arrival order.
AllResponseTimes(endpoint_key) ==
    LET of == SelectSeq(AllRequests, LAMBDA m : EndpointKey(m) = endpoint_key)
    IN  [i \in DOMAIN of |-> of[i].duration_ms]

\* Is a window the last n items of a log, oldest first?
MostRecent(window, log, n) ==
    \A all \in {log} :
        /\ Len(window) = (IF Len(all) < n THEN Len(all) ELSE n)
        /\ window = SubSeq(all, Len(all) - Len(window) + 1, Len(all))

\* C21: the histories are bounded rolling windows: request_history holds at
\* most 1000 entries, cache_operations, cache_hit_rate, db_query_times and each
\* per-endpoint response_times at most 100, and each holds the most recently
\* recorded items in arrival order; a new hit rate goes to the end of
\* cache_hit_rate and pushes out the oldest one when 100 are held.
C21_RollingWindows ==
    /\ [](/\ Len(metrics_collector.request_history) <= 1000
          /\ MostRecent(metrics_collector.request_history, AllRequests, 1000)
          /\ Len(metrics_collector.cache_operations) <= 100
          /\ MostRecent(metrics_collector.cache_operations, AllOps, 100)
          /\ Len(metrics_collector.db_query_times) <= 100
          /\ MostRecent(metrics_collector.db_query_times, AllQueries, 100)
          /\ Len(metrics_collector.cache_hit_rate) <= 100
          /\ Len(metrics_collector.cache_hit_rate) = Len(metrics_collector.cache_operations)
          /\ \A e \in DOMAIN metrics_collector.response_times :
                /\ Len(metrics_collector.response_times[e]) <= 100
                /\ MostRecent(metrics_collector.response_times[e], AllResponseTimes(e), 100))
    /\ [][metrics_collector'.cache_hit_rate # metrics_collector.cache_hit_rate
          => \E rate \in {metrics_collector'.cache_hit_rate[Len(metrics_collector'.cache_hit_rate)]} :
                MostRecent(metrics_collector'.cache_hit_rate,
                           Append(metrics_collector.cache_hit_rate, rate), 100)]_vars

\* C21 witness: a request, a query time and a cache operation were recorded
\* into full windows, each of which dropped its oldest item.
C21_Witness ==
    /\ Len(AllRequests) > 1000 /\ Len(metrics_collector.request_history) = 1000
    /\ Len(AllQueries) > 100 /\ Len(metrics_collector.db_query_times) = 100
    /\ Len(AllOps) > 100 /\ Len(metrics_collector.cache_operations) = 100
    /\ Len(metrics_collector.cache_hit_rate) = 100
    /\ Len(AllResponseTimes("POST:/graphql")) > 100

C23_HitCallbackNeverRaises ==
    [][\A b \in BagToSet(tracked) : \A catches \in BOOLEAN :
          InvokeHit(b, catches) => track_last'.callback = "returned"]_vars

\* C26: a tracked cache operation is recorded exactly once, when its block is
\* left, with hit = False and its operation type, whether or not the block
\* invoked the callback and whether it is left normally or by an exception;
\* entering the block and invoking the callback record nothing.
C26_TrackedRecordedOnceAsMiss ==
    [][/\ \A b \in BagToSet(tracked) :
             TrackExit(b)
             => /\ Len(arrived'.ops) = Len(arrived.ops) + 1
                /\ arrived'.ops[Len(arrived'.ops)].hit = FALSE
                /\ arrived'.ops[Len(arrived'.ops)].type = b.operation_type
                /\ metrics_collector'.cache_operations[Len(metrics_collector'.cache_operations)]
                      = arrived'.ops[Len(arrived'.ops)]
       /\ track_last'.did \in {"enter", "invoke"} /\ track_last' # track_last
             => /\ metrics_collector' = metrics_collector
                /\ arrived' = arrived
       /\ \A b \in BagToSet(tracked') : ~b.hit]_vars

\* C26 witness: a block that had invoked the callback, and handled what it
\* raised, was left normally and recorded as a miss.
C26_Witness ==
    /\ track_last.did = "exit"
    /\ track_last.callback # ""
    /\ track_last.outcome = "returned"
    /\ arrived.ops # <<>>
    /\ ~arrived.ops[Len(arrived.ops)].hit

\* ------------------------------- properties of the job application loader

\* C25: whatever application loads the request made before, a load returns
\* for each requested job the application of the user for it if the table
\* holds one, and None otherwise.
C25_ApplicationsIndependentOfEarlierLoads ==
    app_last.outcome = "ok"
    => LET expected == [j \in KeySet(app_last.job_ids) |->
                           IF Application(app_last.user_id, j) \in applications
                           THEN Application(app_last.user_id, j) ELSE None]
       IN  IF app_last.op = "load_user_application_for_job"
           THEN app_last.ret = expected[app_last.job_ids[1]]
           ELSE app_last.ret = expected

\* ----------------------------------------- properties of DataLoaderContext

\* C27: when the async with statement of a DataLoaderContext is left, by the
\* normal end of its body or by an exception of it, the memo of every loader of
\* its registry is empty, and an exception of the body leaves the statement.
C27_ExitClearsMemos ==
    [][/\ (BodyReturn \/ BodyRaise)
          => /\ \A l \in LoadersOf(dlc.registry) : loaders'[l]._cache = EmptyDict
             /\ LoadersOf(dlc'.registry) = LoadersOf(dlc.registry)
       /\ BodyReturn => dlc'.raised = ""
       /\ BodyRaise => dlc'.raised = "error"]_vars

\* C27 witness: the statement was left by an exception after the body had
\* filled the memos of two loaders; both memos are empty.
C27_Witness ==
    /\ dlc.at = "done"
    /\ dlc.raised = "error"
    /\ Cardinality(dlc.filled) = 2
    /\ \A l \in dlc.filled : loaders[l]._cache = EmptyDict

\* ------------------------------------------------ failed and pending fetches

Suspended(op, keys) == \E call \in BagToSet(pending) : call.op = op /\ call.keys = keys

\* C29: a call suspended on its fetch blocks no other call on the loader: in
\* the runs in which the fetches complete, every suspended load and load_many
\* eventually returns or raises, whatever other calls are suspended.
C29_SuspendedLoadsReturn ==
    \A op \in {"load", "load_many"} : \A keys \in KeyLists :
        Suspended(op, keys) ~> ~Suspended(op, keys)

\* C29 witness: a load returned from its fetch while a call made before it
\* was still suspended on the same loader.
C29_Witness ==
    /\ last.op = "load" /\ last.fetched /\ last.outcome = "ok"
    /\ \E call \in BagToSet(pending) : call.loader = last.loader /\ call.keys # last.keys

\* C30: the key set_job_search_results hands to SETEX matches "jobquest:jobs:*"
\* and the key set_company_data hands to it does not; the scan of an
\* invalidation finds the keys of the job searches the store holds and no
\* other key.
C30_PatternCoversJobSearches ==
    /\ [](/\ (cache_last.op = "set_job_search_results" /\ cache_last.key # NoKey)
              => GlobMatch(JobsPattern, cache_last.key)
          /\ cache_last.op = "set_company_data"
             => ~GlobMatch(JobsPattern, cache_last.key))
    /\ [][(InvalidateScan /\ redis_client # 0 /\ store_up)
          => LET searches == {k \in DOMAIN store : \E p \in JobSearches : k = SearchKey(p)}
             IN  /\ \A sc \in BagToSet(scans' (-) scans) : sc.job_keys = searches
                 /\ scans' = scans => searches = {}]_vars

\* C30 witness: set_job_search_results built the key of an entry that a scan
\* in progress found, in a store that holds a company entry the scan left out.
C30_Witness ==
    /\ cache_last.op = "set_job_search_results" /\ cache_last.reachable
    /\ \E id \in CompanyIds : CompanyKey[id] \in DOMAIN store
    /\ \E sc \in BagToSet(scans) :
          /\ cache_last.key \in sc.job_keys
          /\ \A id \in CompanyIds : CompanyKey[id] \notin sc.job_keys

\* What a get of the key returns from a reachable store.
HitOf(st, key) == IF key \in DOMAIN st THEN JsonLoads(st[key].text) ELSE None

\* C31: neither step of invalidate_job_caches changes an entry outside the
\* jobs namespace: every such entry stays in the store as it was, and a get of
\* a company key returns after the step what it returned before it.
C31_InvalidateLeavesOtherNamespaces ==
    [][(InvalidateScan \/ \E sc \in BagToSet(scans) : InvalidateDelete(sc))
       => /\ \A k \in DOMAIN store :
                ~IsJobKey(k) => k \in DOMAIN store' /\ store'[k] = store[k]
          /\ \A id \in CompanyIds :
                HitOf(store', CompanyKey[id]) = HitOf(store, CompanyKey[id])]_vars

\* C31 witness: an invalidation removed a job-search entry from a store that
\* holds a company entry.
C31_Witness ==
    /\ cache_last.op = "invalidate_job_caches" /\ cache_last.removed > 0
    /\ \E id \in CompanyIds : HitOf(store, CompanyKey[id]) # None

\* ------------------------------------- properties of PerformanceMiddleware

\* C32: a dispatch call that finishes, by a response or by an exception of the
\* handler, appends one entry for its request to request_history (status 500
\* when the handler raised, and the exception goes on to the caller) and takes
\* the request out of active_requests; no other step records anything, and
\* active_requests holds the requests still in the handler and no other.
C32_RecordedOnceAndRemoved ==
    /\ [](DOMAIN active_requests = {RequestKey(d.request_id) : d \in dispatching})
    /\ [][/\ \A d \in dispatching :
               (\E status_code \in StatusCodes : HandlerReturn(d, status_code)
                \/ \E exc \in HandlerExceptions : HandlerRaise(d, exc))
               => /\ Len(arrived'.requests) = Len(arrived.requests) + 1
                  /\ LET log == metrics_collector'.request_history
                         m   == log[Len(log)]
                     IN  /\ log = DequeAppend(metrics_collector.request_history, m, max_history)
                         /\ m.path = d.path /\ m.timestamp = utcnow'
                         /\ m.status_code = dispatch_last'.status_code
                  /\ RequestKey(d.request_id) \notin DOMAIN active_requests'
                  /\ dispatch_last'.outcome = "raised"
                     => dispatch_last'.status_code = 500 /\ dispatch_last'.exc # ""
          /\ dispatching' \subseteq dispatching
             \/ /\ metrics_collector' = metrics_collector
                /\ arrived' = arrived]_vars

\* C32 witness: the handler of one request raised, and the request was recorded
\* with status 500 and removed, while another request was in its handler.
C32_Witness ==
    /\ dispatch_last.outcome = "raised" /\ dispatch_last.status_code = 500
    /\ dispatching # {}
    /\ arrived.requests # <<>>
    /\ RequestKey(dispatch_last.request_id) \notin DOMAIN active_requests

\* ---------------------------------------- properties of get_health_status

\* Does one of the conditions hold that make the application unhealthy?
UnhealthyCondition ==
    LET summary == get_performance_summary(metrics_collector, 5, utcnow)
        cpu     == system_metrics.cpu_percent
        memory  == system_metrics.memory_percent
    IN  \/ DefaultGet(summary, "error_rate_percent", 0) > Hundredths(10)
        \/ DefaultGet(summary, "avg_response_time_ms", 0) > Hundredths(2000)
        \/ cpu # <<>> /\ cpu[Len(cpu)] > 90
        \/ memory # <<>> /\ memory[Len(memory)] > 90

\* C33: get_health_status reports "unhealthy" whenever an unhealthy condition
\* holds; a milder finding of a later check does not lower the status.
C33_UnhealthyNeverDowngraded ==
    (health_last # NoHealth /\ UnhealthyCondition) => health_last.status = "unhealthy"

\* ---------------------------------------- properties of get_cache_service

\* C34: a connect() whose ping fails returns and leaves the service without a
\* client; a get_cache_service call attempts a connection when the service has
\* no client and only then; once a ping has succeeded the client stays, and no
\* further attempt is made.
C34_ConnectRetriedUntilSuccess ==
    [][/\ \A c \in pinging :
             ConnectRaise(c) => /\ cache_last'.outcome = "returned"
                                /\ cache_last'.ret = PyInt(0)
                                /\ redis_client' = 0
       /\ GetCacheService => (connects' = connects + 1) = (redis_client = 0)
       /\ (redis_client # 0 /\ pinging = {})
          => redis_client' = redis_client /\ connects' = connects]_vars

\* C34 witness: the first attempt failed, the second call connected, and the
\* third call returned the service without another attempt.
C34_Witness ==
    /\ connects = 2 /\ redis_client = 2 /\ pinging = {}
    /\ cache_budget = MaxServiceCalls - 3
    /\ cache_last.op = "get_cache_service" /\ cache_last.ret = PyInt(2)

\* C35: at most one connection attempt is in progress at a time, and a client
\* the service holds is never replaced by another client: it is only dropped
\* by the failure of its own ping.
C35_OneClientAtATime ==
    /\ [](Cardinality(pinging) <= 1)
    /\ [][(redis_client # 0 /\ redis_client' # redis_client)
          => redis_client' = 0 /\ ConnectRaise(redis_client)]_vars

\* C35 witness: a second first call returned the service while the ping of
\* the only client created was still awaited.
C35_Witness ==
    /\ connects = 1 /\ pinging = {1} /\ redis_client = 1
    /\ cache_last.op = "get_cache_service" /\ cache_last.ret = PyInt(1)

\* ------------------------------------------ properties of record_request

\* The endpoint keys a collector has counted.
CountedEndpoints(self) == DOMAIN self.request_counts \cup DOMAIN self.error_counts

\* C36: for every endpoint key error_counts is at most request_counts; a
\* record_request call adds one to the request count of its endpoint and, when
\* the status code is 400 or more and only then, one to its error count; no
\* other count changes, and no other step changes a count.
C36_ErrorsWithinRequests ==
    /\ [](\A k \in CountedEndpoints(metrics_collector) :
             DefaultGet(metrics_collector.error_counts, k, 0)
                <= DefaultGet(metrics_collector.request_counts, k, 0))
    /\ [][LET before == metrics_collector
              after  == metrics_collector'
          IN  /\ \A path \in Paths, status_code \in StatusCodes :
                    RecordRequest(path, status_code, 7)
                    => LET key == EndpointKey(arrived'.requests[Len(arrived'.requests)])
                       IN  \A k \in CountedEndpoints(after) :
                              /\ DefaultGet(after.request_counts, k, 0)
                                    = DefaultGet(before.request_counts, k, 0)
                                      + (IF k = key THEN 1 ELSE 0)
                              /\ DefaultGet(after.error_counts, k, 0)
                                    = DefaultGet(before.error_counts, k, 0)
                                      + (IF k = key /\ status_code >= 400 THEN 1 ELSE 0)
              /\ arrived'.requests = arrived.requests
                 => /\ after.request_counts = before.request_counts
                    /\ after.error_counts = before.error_counts]_vars

\* C36 witness: an endpoint for which a failed request and then a successful
\* one were recorded, with fewer errors than requests counted.
C36_Witness ==
    /\ Len(arrived.requests) >= 2
    /\ LET failed == arrived.requests[1]
           passed == arrived.requests[2]
           key    == EndpointKey(failed)
       IN  /\ failed.status_code >= 400 /\ passed.status_code < 400
           /\ EndpointKey(passed) = key
           /\ key \in DOMAIN metrics_collector.error_counts
           /\ metrics_collector.error_counts[key] < metrics_collector.request_counts[key]

\* ------------------------------------ properties of collect_system_metrics

====
